---- MODULE Spec2Model ----
(***************************************************************************)
(* A state-machine model of tgx::Renderer3D<color_t, LX, LY, ZBUFFER,      *)
(* ORTHO> (src/Renderer3D.h): the state setters, the draw entry points,    *)
(* the single primitive pipeline (_drawTriangle, _drawQuad), the clipping  *)
(* tests, the Phong evaluator with its specular power table and the mesh   *)
(* walker (drawMesh, _drawMesh).                                           *)
(*                                                                         *)
(* Representation of numbers.                                              *)
(*  - positions, matrices and everything derived from them by + - * only   *)
(*    (view-space positions, face normals, the face test cu, the clip      *)
(*    coordinates before the divide) are integers: the float computation   *)
(*    on integer-valued floats of this size is exact;                      *)
(*  - a coordinate after zdivide() is the pair <<n, d>>, the quotient n/d  *)
(*    with IEEE semantics for d = 0 (+inf, -inf or NaN), compared with     *)
(*    the operators RLt, RGt, RLe, RGe below;                              *)
(*  - colours, strengths, unit vectors and the power table are fixed-point *)
(*    numbers with FIX units to 1.0, products and quotients rounded        *)
(*    toward zero.                                                         *)
(* The external rasterizer is the log `raster`: the sequence of            *)
(* rasterizeTriangle calls made by the last draw call.                     *)
(***************************************************************************)
EXTENDS Integers, Sequences, FiniteSets, TLC

\* ------------------------------------------------------------------------
\* Bounds of the model
\* ------------------------------------------------------------------------

\* fixed-point units to 1.0
FIX == 100

\* number of primitives in an indexed batch (drawTriangles / drawQuads)
MaxBatch == 1

\* ------------------------------------------------------------------------
\* Program constants
\* ------------------------------------------------------------------------

MAXVIEWPORTDIMENSION == 2048

POWTABSIZE == 16

\* nullptr: the pointer to no object (an object is a record or a non-empty array)
NULL == <<>>

\* a field of a local RasterizerVec4 that the code did not write
UNSET == <<>>

\* shader flags: an int used as a bit set
SHADER_FLAT == {}

SHADER_GOURAUD == {"GOURAUD"}

SHADER_TEXTURE == {"TEXTURE"}

\* ------------------------------------------------------------------------
\* Scalars: tgx::clamp, tgx::max, fixed-point product and quotient
\* ------------------------------------------------------------------------

\* two statements in sequence: the second, F, runs on the value v left by the first
Then(v, F(_)) == CHOOSE r \in {F(x) : x \in {v}} : TRUE

clamp(v, lo, hi) == IF v < lo THEN lo ELSE IF v > hi THEN hi ELSE v

max(a, b) == IF a > b THEN a ELSE b

Abs(a) == IF a < 0 THEN -a ELSE a

\* quotient rounded toward zero (b # 0)
fdiv(a, b) ==
    LET q == Abs(a) \div Abs(b)
    IN  IF (a < 0) = (b < 0) THEN q ELSE -q

\* product of two fixed-point numbers
fmul(a, b) == fdiv(a * b, FIX)

RECURSIVE ISqrtIter(_, _)
ISqrtIter(n, x) ==
    LET y == (x + (n \div x)) \div 2
    IN  IF y >= x THEN x ELSE ISqrtIter(n, y)

\* floor of the square root of n >= 0: Newton's iteration from the power of
\* two next above the root
ISqrt(n) ==
    IF n <= 0 THEN 0
    ELSE ISqrtIter(n, CHOOSE p \in {2 ^ k : k \in 1..16} :
                          p > n \div p /\ (p \div 2) * (p \div 2) <= n)

\* ------------------------------------------------------------------------
\* Vec3 / Vec4 / Mat4 (tuples; a Mat4 is the tuple of its four rows)
\* ------------------------------------------------------------------------

V3(x, y, z) == <<x, y, z>>

xyz(Q) == <<Q[1], Q[2], Q[3]>>

V3Sub(a, b) == <<a[1] - b[1], a[2] - b[2], a[3] - b[3]>>

V3Add(a, b) == <<a[1] + b[1], a[2] + b[2], a[3] + b[3]>>

V3Neg(a) == <<-a[1], -a[2], -a[3]>>

dotProduct(a, b) == a[1] * b[1] + a[2] * b[2] + a[3] * b[3]

crossProduct(a, b) ==
    << a[2] * b[3] - a[3] * b[2],
       a[3] * b[1] - a[1] * b[3],
       a[1] * b[2] - a[2] * b[1] >>

\* an integer vector as a fixed-point vector
ToFix(v) == <<v[1] * FIX, v[2] * FIX, v[3] * FIX>>

\* dot product of two fixed-point vectors
fdot(a, b) == fdiv(dotProduct(a, b), FIX)

\* fixed-point vector times fixed-point scalar
V3Scale(v, s) == <<fmul(v[1], s), fmul(v[2], s), fmul(v[3], s)>>

\* norm of a fixed-point vector
norm(v) == ISqrt(dotProduct(v, v))

\* Vec3::normalize() on a fixed-point vector.  A zero vector has no direction:
\* the float code yields NaN components, which max(.,0) in _phong turns into 0;
\* the zero vector gives the same 0 there.
normalize(v) ==
    LET n == norm(v)
    IN  IF n = 0 THEN <<0, 0, 0>>
        ELSE <<fdiv(v[1] * FIX, n), fdiv(v[2] * FIX, n), fdiv(v[3] * FIX, n)>>

Identity == << <<1, 0, 0, 0>>, <<0, 1, 0, 0>>, <<0, 0, 1, 0>>, <<0, 0, 0, 1>> >>

\* Mat4 * Vec4
MatVec4(M, Q) ==
    [i \in 1..4 |-> M[i][1] * Q[1] + M[i][2] * Q[2] + M[i][3] * Q[3] + M[i][4] * Q[4]]

\* Mat4 * Mat4
MatMul(A, B) ==
    [i \in 1..4 |-> [j \in 1..4 |->
        A[i][1] * B[1][j] + A[i][2] * B[2][j] + A[i][3] * B[3][j] + A[i][4] * B[4][j]]]

\* Mat4::mult1 : the matrix applied to (P, 1), a Vec4
mult1(M, P) == MatVec4(M, <<P[1], P[2], P[3], 1>>)

\* Mat4::mult0 : the matrix applied to (P, 0) (no translation), a Vec3
mult0(M, P) == xyz(MatVec4(M, <<P[1], P[2], P[3], 0>>))

\* Mat4::invertYaxis : negates the row that produces y
invertYaxis(M) == <<M[1], <<-M[2][1], -M[2][2], -M[2][3], -M[2][4]>>, M[3], M[4]>>

\* ------------------------------------------------------------------------
\* Coordinates after Vec4::zdivide(): the pair <<n, d>> is the float n/d
\* (d = 0: +inf if n > 0, -inf if n < 0, NaN if n = 0; NaN compares false)
\* ------------------------------------------------------------------------

RLt(r, b) == IF r[2] > 0 THEN r[1] < b * r[2]
             ELSE IF r[2] < 0 THEN r[1] > b * r[2]
             ELSE r[1] < 0

RGt(r, b) == IF r[2] > 0 THEN r[1] > b * r[2]
             ELSE IF r[2] < 0 THEN r[1] < b * r[2]
             ELSE r[1] > 0

RLe(r, b) == IF r[2] > 0 THEN r[1] <= b * r[2]
             ELSE IF r[2] < 0 THEN r[1] >= b * r[2]
             ELSE r[1] < 0

RGe(r, b) == IF r[2] > 0 THEN r[1] >= b * r[2]
             ELSE IF r[2] < 0 THEN r[1] <= b * r[2]
             ELSE r[1] > 0

\* Vec4::zdivide : x, y, z multiplied by 1/w, and w replaced by 1/w
zdivide(S) == << <<S[1], S[4]>>, <<S[2], S[4]>>, <<S[3], S[4]>>, <<1, S[4]>> >>

\* a Vec4 that was not divided, in the same representation
nodivide(S) == << <<S[1], 1>>, <<S[2], 1>>, <<S[3], 1>>, <<S[4], 1>> >>

\* ------------------------------------------------------------------------
\* RGBf (a triple of fixed-point channels)
\* ------------------------------------------------------------------------

RGBf(r, g, b) == <<r, g, b>>

\* RGBf * float
RGBScale(c, s) == <<fmul(c[1], s), fmul(c[2], s), fmul(c[3], s)>>

\* RGBf += RGBf
RGBAdd(c, d) == <<c[1] + d[1], c[2] + d[2], c[3] + d[3]>>

\* RGBf *= RGBf
RGBMul(c, d) == <<fmul(c[1], d[1]), fmul(c[2], d[2]), fmul(c[3], d[3])>>

\* RGBf::clamp : every channel into [0, 1]
RGBClamp(c) == <<clamp(c[1], 0, FIX), clamp(c[2], 0, FIX), clamp(c[3], 0, FIX)>>

WHITE == <<FIX, FIX, FIX>>

\* ------------------------------------------------------------------------
\* State
\* ------------------------------------------------------------------------

VARIABLES
    \* template parameters of the instantiation (fixed by Init)
    LX, LY, ZBUFFER, ORTHO,
    \* general parameters
    ox, oy,                 \* image offset w.r.t. the viewport
    im,                     \* image drawn onto: NULL or [valid, lx, ly]
    projM,                  \* projection matrix (stored with its Y axis inverted)
    zbuffer_len,            \* declared size of the zbuffer
    uni,                    \* rasterizer parameters [zbuf, facecolor, tex]
    culling_dir,            \* 1, -1 or 0
    \* scene parameters
    viewM, light, ambiantColor, diffuseColor, specularColor,
    \* model parameters
    modelM, color, ambiantStrength, diffuseStrength, specularStrength,
    specularExponent,
    \* pre-computed values
    r_modelViewM, r_inorm, r_light, r_light_inorm, r_H, r_H_inorm,
    r_ambiantColor, r_diffuseColor, r_specularColor, r_objectColor,
    \* specular power table
    currentpow, powfact, fastpowtab,
    \* the last draw call: its entry point and arguments, the status it returned
    \* and the rasterizeTriangle calls it made (reset by every setter), with
    \* the per-mesh log of drawMesh and the attribute arrays it dereferenced
    call, ret, raster, meshlog, deref,
    \* TRUE once a call dereferenced a null pointer and the build trapped
    trapped

tmplVars == <<LX, LY, ZBUFFER, ORTHO>>

generalVars == <<ox, oy, im, projM, zbuffer_len, culling_dir>>

sceneVars == <<viewM, light, ambiantColor, diffuseColor, specularColor>>

modelVars == <<modelM, color, ambiantStrength, diffuseStrength, specularStrength,
               specularExponent>>

geomCache == <<r_modelViewM, r_inorm, r_light, r_light_inorm, r_H, r_H_inorm>>

matCache == <<r_ambiantColor, r_diffuseColor, r_specularColor, r_objectColor>>

powVars == <<currentpow, powfact, fastpowtab>>

obsVars == <<call, ret, raster, meshlog, deref, trapped>>

vars == <<tmplVars, generalVars, uni, sceneVars, modelVars, geomCache, matCache,
          powVars, obsVars>>

\* the renderer object as one record: what a member function reads and writes
This ==
    [ LX |-> LX, LY |-> LY, ZBUFFER |-> ZBUFFER, ORTHO |-> ORTHO,
      ox |-> ox, oy |-> oy, im |-> im, projM |-> projM,
      zbuffer_len |-> zbuffer_len, uni |-> uni, culling_dir |-> culling_dir,
      viewM |-> viewM, light |-> light, ambiantColor |-> ambiantColor,
      diffuseColor |-> diffuseColor, specularColor |-> specularColor,
      modelM |-> modelM, color |-> color, ambiantStrength |-> ambiantStrength,
      diffuseStrength |-> diffuseStrength, specularStrength |-> specularStrength,
      specularExponent |-> specularExponent,
      r_modelViewM |-> r_modelViewM, r_inorm |-> r_inorm, r_light |-> r_light,
      r_light_inorm |-> r_light_inorm, r_H |-> r_H, r_H_inorm |-> r_H_inorm,
      r_ambiantColor |-> r_ambiantColor, r_diffuseColor |-> r_diffuseColor,
      r_specularColor |-> r_specularColor, r_objectColor |-> r_objectColor,
      currentpow |-> currentpow, powfact |-> powfact, fastpowtab |-> fastpowtab,
      \* what the running call has handed to the rasterizer so far
      raster |-> <<>>,
      \* the attribute arrays ("N", "T") the running call has dereferenced, and
      \* those of them that were null pointers
      deref |-> {}, nullread |-> {},
      \* one entry per mesh handed to _drawMesh by the running call: its place k
      \* in the chain, its RASTER_TYPE, and the range first..last of its
      \* submissions in raster
      meshlog |-> <<>>,
      \* the status the running call returns
      ret |-> 0 ]

\* ------------------------------------------------------------------------
\* Phong lightning: the specular power table and _phong
\* ------------------------------------------------------------------------

RECURSIVE powf(_, _)
\* powf(v, e) for an integer exponent e >= 0, by repeated squaring
powf(v, e) ==
    IF e = 0 THEN FIX
    ELSE Then(powf(v, e \div 2),
              LAMBDA h : IF e % 2 = 0 THEN fmul(h, h) ELSE fmul(v, fmul(h, h)))

\* variant: the table for the exponent 0 holds ones
PowTableOnes(exponent) ==
    [ currentpow |-> exponent,
      powfact    |-> IF exponent > 0
                     THEN fdiv(exponent * POWTABSIZE * FIX,
                               IF exponent < 8 THEN exponent ELSE 8)
                     ELSE 0,
      fastpowtab |-> [k \in 1..POWTABSIZE |-> FIX] ]

\* the three members written by _precomputeSpecularTable(exponent)
PowTable(exponent) ==
    LET bbsp == IF exponent < 8 THEN exponent ELSE 8
    IN  IF exponent > 0
        THEN [ currentpow |-> exponent,
               powfact    |-> fdiv(exponent * POWTABSIZE * FIX, bbsp),
               fastpowtab |-> [k \in 1..POWTABSIZE |->
                   powf(FIX - fdiv(bbsp * (k - 1) * FIX, exponent * POWTABSIZE),
                        exponent)] ]
        ELSE [ currentpow |-> exponent,
               powfact    |-> 0,
               fastpowtab |-> [k \in 1..POWTABSIZE |-> 0] ]

\* variant: the table is built once and kept whatever the exponent asked for
_precomputeSpecularTableOnce(t, exponent) ==
    IF t.currentpow >= 0 THEN t
    ELSE [t EXCEPT !.currentpow = exponent,
                   !.powfact = fdiv(exponent * POWTABSIZE * FIX,
                                    IF exponent < 8 THEN exponent ELSE 8),
                   !.fastpowtab = [k \in 1..POWTABSIZE |->
                       powf(FIX - fdiv((IF exponent < 8 THEN exponent ELSE 8)
                                           * (k - 1) * FIX,
                                       exponent * POWTABSIZE), exponent)]]

\* _precomputeSpecularTable : rebuilds the table unless it is the one built last
_precomputeSpecularTable(t, exponent) ==
    IF t.currentpow = exponent THEN t
    ELSE LET p == PowTable(exponent)
         IN  [t EXCEPT !.currentpow = p.currentpow, !.powfact = p.powfact,
                       !.fastpowtab = p.fastpowtab]

\* _fastpowtab[i] (0-based); outside 0..15 the read is out of the array and
\* yields whatever lies there (gf)
TabRead(t, i, gf) == IF i \in 0..(POWTABSIZE - 1) THEN t.fastpowtab[i + 1] ELSE gf

\* _powSpecular : linear interpolation in the table
_powSpecular(t, x, gf) ==
    LET indf == fmul(FIX - x, t.powfact)
        indi == fdiv(indf, FIX)
    IN  IF indi >= POWTABSIZE - 1 THEN 0
        ELSE TabRead(t, indi, gf)
             + fmul(indf - indi * FIX, TabRead(t, indi + 1, gf) - TabRead(t, indi, gf))

\* _phong<TEXTURE>
\* variant: the colour is clamped before it is multiplied by the object colour
_phongClampFirst(t, TEXTURE, v_diffuse, v_specular, gf) ==
    LET c0 == t.r_ambiantColor
        c1 == RGBAdd(c0, RGBScale(t.r_diffuseColor, max(v_diffuse, 0)))
        c2 == RGBAdd(c1, RGBScale(t.r_specularColor,
                                  _powSpecular(t, max(v_specular, 0), gf)))
    IN  IF ~TEXTURE THEN RGBMul(RGBClamp(c2), t.r_objectColor) ELSE RGBClamp(c2)

_phong(t, TEXTURE, v_diffuse, v_specular, gf) ==
    LET c0 == t.r_ambiantColor
        c1 == RGBAdd(c0, RGBScale(t.r_diffuseColor, max(v_diffuse, 0)))
        c2 == RGBAdd(c1, RGBScale(t.r_specularColor,
                                  _powSpecular(t, max(v_specular, 0), gf)))
        c3 == IF ~TEXTURE THEN RGBMul(c2, t.r_objectColor) ELSE c2
    IN  RGBClamp(c3)

\* ------------------------------------------------------------------------
\* Projection and the per-vertex clip test
\* ------------------------------------------------------------------------

\* static const float clipboundXY = (2048 / ((LX > LY) ? LX : LY)) : an int quotient
clipboundXY(t) == 2048 \div (IF t.LX > t.LY THEN t.LX ELSE t.LY)

\* PC = _projM * Q; if (ORTHO) PC.w = 2.0f - PC.z; else PC.zdivide();
Project(t, Q) ==
    LET S == MatVec4(t.projM, Q)
    IN  IF t.ORTHO THEN <<<<S[1], 1>>, <<S[2], 1>>, <<S[3], 1>>, <<2 - S[3], 1>>>>
        ELSE zdivide(S)

\* the clip test of one vertex: view-space position Q, projected PC
NeedClip(t, Q, PC) ==
    \/ Q[3] >= 0
    \/ RLt(PC[1], -clipboundXY(t)) \/ RGt(PC[1], clipboundXY(t))
    \/ RLt(PC[2], -clipboundXY(t)) \/ RGt(PC[2], clipboundXY(t))
    \/ RLt(PC[3], -1) \/ RGt(PC[3], 1)

\* the face test: cu = (ORTHO) ? dot(faceN, (0,0,-1)) : dot(faceN, Q0)
FaceTest(t, faceN, Q0) ==
    IF t.ORTHO THEN dotProduct(faceN, <<0, 0, -1>>) ELSE dotProduct(faceN, xyz(Q0))

\* variant: the sign of cu alone decides, whatever the culling direction
CulledIgnoresDirection(t, cu) == cu > 0

\* if (cu * _culling_dir > 0) : the primitive is skipped
Culled(t, cu) == cu * t.culling_dir > 0

\* ------------------------------------------------------------------------
\* The single primitive pipeline
\* ------------------------------------------------------------------------

\* *N for one of the normal (texcoord) pointers of a primitive: the pointers of
\* a primitive are all null or all valid; a null one reads whatever lies at
\* address 0 (g)
Deref(A, i, g) == IF A = NULL THEN g ELSE A[i]

\* the running call dereferences the pointers A of kind k ("N" or "T")
NoteDeref(t, k, A) ==
    [t EXCEPT !.deref = @ \cup {k},
              !.nullread = IF A = NULL THEN @ \cup {k} ELSE @]

\* a RasterizerVec4 as handed to the rasterizer; Q (the view-space position it
\* was projected from) is not part of it and is kept for the record
RVec(PC, col, T, Q) ==
    [x |-> PC[1], y |-> PC[2], z |-> PC[3], w |-> PC[4], color |-> col, T |-> T, Q |-> Q]

\* rasterizeTriangle<LX, LY, ZBUFFER, ORTHO>(RASTER_TYPE, V0, V1, V2, _ox, _oy, _uni)
Rasterize(t, RASTER_TYPE, V0, V1, V2) ==
    [t EXCEPT !.raster = Append(@, [type |-> RASTER_TYPE, v |-> <<V0, V1, V2>>,
                                    ox |-> t.ox, oy |-> t.oy, uni |-> t.uni])]

\* _powSpecular(x) reads _fastpowtab at an index below 0
TableOverrun(t, x) ==
    LET indi == fdiv(fmul(FIX - x, t.powfact), FIX)
    IN  indi < POWTABSIZE - 1 /\ indi < 0

\* the running call shades the normals Ns per vertex: a read outside the power
\* table ("powtab") is recorded with the reads through null pointers
NoteShaded(t, icu, Ns) ==
    [t EXCEPT !.nullread =
        IF \E n \in Ns : TableOverrun(t, max(icu * fdot(mult0(t.r_modelViewM, n),
                                                         t.r_H_inorm), 0))
        THEN @ \cup {"powtab"} ELSE @]

\* the colour of one vertex in Gouraud shading
GouraudColor(t, RASTER_TYPE, icu, Nrm, g) ==
    LET NN == mult0(t.r_modelViewM, Nrm)
    IN  _phong(t, "TEXTURE" \in RASTER_TYPE,
               icu * fdot(NN, t.r_light_inorm), icu * fdot(NN, t.r_H_inorm), g.f)

\* the uniform colour of a face in flat shading
FlatColor(t, RASTER_TYPE, cu, faceN, g) ==
    LET icu == IF cu > 0 THEN -1 ELSE 1
    IN  Then(normalize(ToFix(faceN)),
             LAMBDA fN : _phong(t, "TEXTURE" \in RASTER_TYPE,
                                icu * fdot(fN, t.r_light), icu * fdot(fN, t.r_H), g.f))

\* icu of the Gouraud branch: normals are reversed only when culling is disabled
GouraudIcu(t, cu) == IF t.culling_dir # 0 THEN 1 ELSE (IF cu > 0 THEN -1 ELSE 1)

\* _drawTriangle(RASTER_TYPE, P0, P1, P2, N0, N1, N2, T0, T1, T2)
\* P: the three positions; N, T: the three normals / texcoords, or NULL
_drawTriangle(t, RASTER_TYPE, P, N, T, g) ==
    LET Q0 == mult1(t.r_modelViewM, P[1])
        Q1 == mult1(t.r_modelViewM, P[2])
        Q2 == mult1(t.r_modelViewM, P[3])
        faceN == crossProduct(V3Sub(xyz(Q1), xyz(Q0)), V3Sub(xyz(Q2), xyz(Q0)))
        cu == FaceTest(t, faceN, Q0)
        PC0 == Project(t, Q0)
        PC1 == Project(t, Q1)
        PC2 == Project(t, Q2)
        needclip == NeedClip(t, Q0, PC0) \/ NeedClip(t, Q1, PC1) \/ NeedClip(t, Q2, PC2)
        gouraud == "GOURAUD" \in RASTER_TYPE
        texture == "TEXTURE" \in RASTER_TYPE
        icu == GouraudIcu(t, cu)
        t1 == IF gouraud
              THEN NoteShaded(NoteDeref(t, "N", N), icu,
                              {Deref(N, i, g.n) : i \in 1..3})
              ELSE [t EXCEPT !.uni.facecolor = FlatColor(t, RASTER_TYPE, cu, faceN, g)]
        t2 == IF texture THEN NoteDeref(t1, "T", T) ELSE t1
        col(i) == IF gouraud THEN GouraudColor(t, RASTER_TYPE, icu, Deref(N, i, g.n), g)
                  ELSE UNSET
        tex(i) == IF texture THEN Deref(T, i, g.t) ELSE UNSET
    IN  IF Culled(t, cu) THEN t
        ELSE IF needclip THEN t
        ELSE Rasterize(t2, RASTER_TYPE,
                       RVec(PC0, col(1), tex(1), Q0),
                       RVec(PC1, col(2), tex(2), Q1),
                       RVec(PC2, col(3), tex(3), Q2))

\* _drawQuad(RASTER_TYPE, P0..P3, N0..N3, T0..T3)
_drawQuad(t, RASTER_TYPE, P, N, T, g) ==
    LET Q0 == mult1(t.r_modelViewM, P[1])
        Q1 == mult1(t.r_modelViewM, P[2])
        Q2 == mult1(t.r_modelViewM, P[3])
        faceN == crossProduct(V3Sub(xyz(Q1), xyz(Q0)), V3Sub(xyz(Q2), xyz(Q0)))
        cu == FaceTest(t, faceN, Q0)
        Q3 == mult1(t.r_modelViewM, P[4])
        PC0 == Project(t, Q0)
        PC1 == Project(t, Q1)
        PC2 == Project(t, Q2)
        PC3 == Project(t, Q3)
        needclip == \/ NeedClip(t, Q0, PC0) \/ NeedClip(t, Q1, PC1)
                    \/ NeedClip(t, Q2, PC2) \/ NeedClip(t, Q3, PC3)
        gouraud == "GOURAUD" \in RASTER_TYPE
        texture == "TEXTURE" \in RASTER_TYPE
        icu == GouraudIcu(t, cu)
        t1 == IF gouraud
              THEN NoteShaded(NoteDeref(t, "N", N), icu,
                              {Deref(N, i, g.n) : i \in 1..4})
              ELSE [t EXCEPT !.uni.facecolor = FlatColor(t, RASTER_TYPE, cu, faceN, g)]
        t2 == IF texture THEN NoteDeref(t1, "T", T) ELSE t1
        col(i) == IF gouraud THEN GouraudColor(t, RASTER_TYPE, icu, Deref(N, i, g.n), g)
                  ELSE UNSET
        tex(i) == IF texture THEN Deref(T, i, g.t) ELSE UNSET
        V0 == RVec(PC0, col(1), tex(1), Q0)
        V1 == RVec(PC1, col(2), tex(2), Q1)
        V2 == RVec(PC2, col(3), tex(3), Q2)
        V3q == RVec(PC3, col(4), tex(4), Q3)
    IN  IF Culled(t, cu) THEN t
        ELSE IF needclip THEN t
        ELSE Rasterize(Rasterize(t2, RASTER_TYPE, V0, V1, V2), RASTER_TYPE, V0, V2, V3q)

\* ------------------------------------------------------------------------
\* Draw entry points: single triangle, single quad
\* ------------------------------------------------------------------------

\* variant: the validity of the image is not checked
ImageInvalidNullOnly(t) == t.im = NULL

\* (_im == nullptr) || (!_im->isValid())
ImageInvalid(t) == (t.im = NULL) \/ ~t.im.valid

\* variant: a depth buffer of exactly LX * LY floats is refused
ZbufInvalidOffByOne(t) ==
    t.ZBUFFER /\ ((t.uni.zbuf = NULL) \/ (t.zbuffer_len <= t.LX * t.LY))

\* (ZBUFFER) && ((_uni.zbuf == nullptr) || (_zbuffer_len < LX * LY))
ZbufInvalid(t) == t.ZBUFFER /\ ((t.uni.zbuf = NULL) \/ (t.zbuffer_len < t.LX * t.LY))

Return(t, status) == [t EXCEPT !.ret = status]

\* variant: the texture image is stored without the null test
StoreTextureUnchecked(t, shader, texture) ==
    IF "TEXTURE" \in shader THEN [t EXCEPT !.uni.tex = texture] ELSE t

\* if (shader & SHADER_TEXTURE) { if (texture == nullptr) return -3; _uni.tex = texture; }
\* the renderer after the store, or NULL when the call returns -3
StoreTexture(t, shader, texture) ==
    IF "TEXTURE" \in shader
    THEN (IF texture = NULL THEN NULL ELSE [t EXCEPT !.uni.tex = texture])
    ELSE t

\* int drawTriangle(shader, P1, P2, P3)
drawTriangle(t, shader, P, g) ==
    IF ImageInvalid(t) THEN Return(t, -1)
    ELSE IF ZbufInvalid(t) THEN Return(t, -2)
    ELSE Return(_drawTriangle(_precomputeSpecularTable(t, t.specularExponent),
                              SHADER_FLAT, P, NULL, NULL, g), 0)

\* int drawTriangle(shader, P1, P2, P3, N1, N2, N3)
drawTriangleN(t, shader, P, N, g) ==
    IF ImageInvalid(t) THEN Return(t, -1)
    ELSE IF ZbufInvalid(t) THEN Return(t, -2)
    ELSE Return(_drawTriangle(_precomputeSpecularTable(t, t.specularExponent),
                              shader \ SHADER_TEXTURE, P, N, NULL, g), 0)

\* int drawTriangle(shader, P1, P2, P3, T1, T2, T3, texture)
drawTriangleT(t, shader, P, T, texture, g) ==
    IF ImageInvalid(t) THEN Return(t, -1)
    ELSE IF ZbufInvalid(t) THEN Return(t, -2)
    ELSE LET t1 == _precomputeSpecularTable(t, t.specularExponent)
             sh == shader \ SHADER_GOURAUD
             t2 == StoreTexture(t1, sh, texture)
         IN  IF t2 = NULL THEN Return(t1, -3)
             ELSE Return(_drawTriangle(t2, sh, P, NULL, T, g), 0)

\* int drawTriangle(shader, P1, P2, P3, N1, N2, N3, T1, T2, T3, texture)
drawTriangleNT(t, shader, P, N, T, texture, g) ==
    IF ImageInvalid(t) THEN Return(t, -1)
    ELSE IF ZbufInvalid(t) THEN Return(t, -2)
    ELSE LET t1 == _precomputeSpecularTable(t, t.specularExponent)
             t2 == StoreTexture(t1, shader, texture)
         IN  IF t2 = NULL THEN Return(t1, -3)
             ELSE Return(_drawTriangle(t2, shader, P, N, T, g), 0)

\* int drawQuad(shader, P1, P2, P3, P4)
drawQuad(t, shader, P, g) ==
    IF ImageInvalid(t) THEN Return(t, -1)
    ELSE IF ZbufInvalid(t) THEN Return(t, -2)
    ELSE Return(_drawQuad(_precomputeSpecularTable(t, t.specularExponent),
                          shader, P, NULL, NULL, g), 0)

\* int drawQuad(shader, P1..P4, N1..N4)
drawQuadN(t, shader, P, N, g) ==
    IF ImageInvalid(t) THEN Return(t, -1)
    ELSE IF ZbufInvalid(t) THEN Return(t, -2)
    ELSE Return(_drawQuad(_precomputeSpecularTable(t, t.specularExponent),
                          shader \ SHADER_TEXTURE, P, N, NULL, g), 0)

\* int drawQuad(shader, P1..P4, T1..T4, texture)
drawQuadT(t, shader, P, T, texture, g) ==
    IF ImageInvalid(t) THEN Return(t, -1)
    ELSE IF ZbufInvalid(t) THEN Return(t, -2)
    ELSE LET t1 == _precomputeSpecularTable(t, t.specularExponent)
             sh == shader \ SHADER_GOURAUD
             t2 == StoreTexture(t1, sh, texture)
         IN  IF t2 = NULL THEN Return(t1, -3)
             ELSE Return(_drawQuad(t2, sh, P, NULL, T, g), 0)

\* int drawQuad(shader, P1..P4, N1..N4, T1..T4, texture)
drawQuadNT(t, shader, P, N, T, texture, g) ==
    IF ImageInvalid(t) THEN Return(t, -1)
    ELSE IF ZbufInvalid(t) THEN Return(t, -2)
    ELSE LET t1 == _precomputeSpecularTable(t, t.specularExponent)
             t2 == StoreTexture(t1, shader, texture)
         IN  IF t2 = NULL THEN Return(t1, -3)
             ELSE Return(_drawQuad(t2, shader, P, N, T, g), 0)

\* ------------------------------------------------------------------------
\* Draw entry points: indexed batches
\* ------------------------------------------------------------------------

\* array[i] for a C array held as a sequence (0-based index i)
At(array, i) == array[i + 1]

\* the k consecutive array elements selected by ind[n], .., ind[n + k - 1]
Gather(array, ind, n, k) == [j \in 1..k |-> At(array, At(ind, n + j - 1))]

\* the batch call's arguments as a record
\*   a.nb, a.ind_vertices, a.vertices, a.ind_normals, a.normals,
\*   a.ind_texture, a.textures, a.texture_image
\* shader after the two "disable" lines of drawTriangles / drawQuads
BatchShader(shader, a) ==
    LET s1 == IF (a.ind_normals = NULL) \/ (a.normals = NULL)
              THEN shader \ SHADER_GOURAUD ELSE shader
    IN  IF (a.ind_texture = NULL) \/ (a.textures = NULL) \/ (a.texture_image = NULL)
        THEN s1 \ SHADER_TEXTURE ELSE s1

RECURSIVE TrianglesLoop(_, _, _, _, _, _)
\* for (int n = 0; n < nb_triangles; n += 3) _drawTriangle(...)
TrianglesLoop(t, shader, a, n, end, g) ==
    IF n >= end THEN t
    ELSE TrianglesLoop(
            _drawTriangle(t, shader, Gather(a.vertices, a.ind_vertices, n, 3),
                IF "GOURAUD" \in shader THEN Gather(a.normals, a.ind_normals, n, 3) ELSE NULL,
                IF "TEXTURE" \in shader THEN Gather(a.textures, a.ind_texture, n, 3) ELSE NULL,
                g),
            shader, a, n + 3, end, g)

\* int drawTriangles(shader, nb_triangles, ind_vertices, vertices, ind_normals,
\*                   normals, ind_texture, textures, texture_image)
drawTriangles(t, shader, a, g) ==
    IF ImageInvalid(t) THEN Return(t, -1)
    ELSE IF ZbufInvalid(t) THEN Return(t, -2)
    ELSE IF (a.ind_vertices = NULL) \/ (a.vertices = NULL) THEN Return(t, -3)
    ELSE LET sh == BatchShader(shader, a)
             t1 == _precomputeSpecularTable(t, t.specularExponent)
             t2 == IF "TEXTURE" \in sh THEN [t1 EXCEPT !.uni.tex = a.texture_image] ELSE t1
         IN  Return(TrianglesLoop(t2, sh, a, 0, a.nb * 3, g), 0)

RECURSIVE QuadsLoop(_, _, _, _, _, _)
\* for (int n = 0; n < nb_quads; n += 4) _drawQuad(...)
QuadsLoop(t, shader, a, n, end, g) ==
    IF n >= end THEN t
    ELSE QuadsLoop(
            _drawQuad(t, shader, Gather(a.vertices, a.ind_vertices, n, 4),
                IF "GOURAUD" \in shader THEN Gather(a.normals, a.ind_normals, n, 4) ELSE NULL,
                IF "TEXTURE" \in shader THEN Gather(a.textures, a.ind_texture, n, 4) ELSE NULL,
                g),
            shader, a, n + 4, end, g)

\* int drawQuads(shader, nb_quads, ind_vertices, vertices, ind_normals, normals,
\*               ind_texture, textures, texture_image)
drawQuads(t, shader, a, g) ==
    IF ImageInvalid(t) THEN Return(t, -1)
    ELSE IF ZbufInvalid(t) THEN Return(t, -2)
    ELSE IF (a.ind_vertices = NULL) \/ (a.vertices = NULL) THEN Return(t, -3)
    ELSE LET sh == BatchShader(shader, a)
             t1 == _precomputeSpecularTable(t, t.specularExponent)
             t2 == IF "TEXTURE" \in sh THEN [t1 EXCEPT !.uni.tex = a.texture_image] ELSE t1
         IN  Return(QuadsLoop(t2, sh, a, 0, a.nb * 4, g), 0)

\* ------------------------------------------------------------------------
\* Clipping of a mesh by its bounding box
\* ------------------------------------------------------------------------

\* the float (k * (2 / L) - 1) as the fraction <<num, den>>, den > 0
Frac(k, L) == <<2 * k - L, L>>

\* r >= a/b, r <= a/b for a projected coordinate r and a fraction f = <<a, b>>
RGeF(r, f) == RGe(<<r[1] * f[2], r[2]>>, f[1])

RLeF(r, f) == RLe(<<r[1] * f[2], r[2]>>, f[1])

\* S = M.mult1(P); if (!ORTHO) { S.zdivide(); if (S.w <= 0) S.z = -2; }
ClipPoint(t, P, M) ==
    LET S0 == mult1(M, P)
        S  == IF t.ORTHO THEN nodivide(S0) ELSE zdivide(S0)
    IN  IF ~t.ORTHO /\ RLe(S[4], 0) THEN <<S[1], S[2], <<-2, 1>>, S[4]>> ELSE S

\* _clip : the bits of fl (a subset of {1, 2, 4, 8, 16, 32}) that P leaves set
_clip(t, fl, P, M, bx, Bx, by, By) ==
    LET S == ClipPoint(t, P, M)
    IN  fl \ ( (IF RGeF(S[1], bx) THEN {1} ELSE {})
          \cup (IF RLeF(S[1], Bx) THEN {2} ELSE {})
          \cup (IF RGeF(S[2], by) THEN {4} ELSE {})
          \cup (IF RLeF(S[2], By) THEN {8} ELSE {})
          \cup (IF RGe(S[3], -1)  THEN {16} ELSE {})
          \cup (IF RLe(S[3], 1)   THEN {32} ELSE {}) )

\* the 8 corners of a box, in the order _discard and _clipTestNeeded visit them
Corners(b) ==
    << <<b.xmin, b.ymin, b.zmin>>, <<b.xmin, b.ymin, b.zmax>>,
       <<b.xmin, b.ymax, b.zmin>>, <<b.xmin, b.ymax, b.zmax>>,
       <<b.xmax, b.ymin, b.zmin>>, <<b.xmax, b.ymin, b.zmax>>,
       <<b.xmax, b.ymax, b.zmin>>, <<b.xmax, b.ymax, b.zmax>> >>

RECURSIVE DiscardLoop(_, _, _, _, _, _, _, _, _)
DiscardLoop(t, fl, c, k, M, bx, Bx, by, By) ==
    IF k > 8 THEN TRUE
    ELSE LET f == _clip(t, fl, c[k], M, bx, Bx, by, By)
         IN  IF f = {} THEN FALSE ELSE DiscardLoop(t, f, c, k + 1, M, bx, Bx, by, By)

\* variant: the right bound of the image is not tested
_discardWithoutRightBound(t, b, M) ==
    IF /\ b.xmin = 0 /\ b.xmax = 0 /\ b.ymin = 0
       /\ b.ymax = 0 /\ b.zmin = 0 /\ b.zmax = 0
    THEN FALSE
    ELSE DiscardLoop(t, {1, 4, 8, 16, 32}, Corners(b), 1, M,
                     Frac(t.ox - 1, t.LX), Frac(t.ox + t.im.lx + 1, t.LX),
                     Frac(t.oy - 1, t.LY), Frac(t.oy + t.im.ly + 1, t.LY))

\* _discard : TRUE when the box is to be skipped
_discard(t, b, M) ==
    IF /\ b.xmin = 0 /\ b.xmax = 0 /\ b.ymin = 0
       /\ b.ymax = 0 /\ b.zmin = 0 /\ b.zmax = 0
    THEN FALSE
    ELSE DiscardLoop(t, {1, 2, 4, 8, 16, 32}, Corners(b), 1, M,
                     Frac(t.ox - 1, t.LX), Frac(t.ox + t.im.lx + 1, t.LX),
                     Frac(t.oy - 1, t.LY), Frac(t.oy + t.im.ly + 1, t.LY))

\* _clip2
_clip2(t, cb, P, M) ==
    LET S == ClipPoint(t, P, M)
    IN  \/ RLe(S[1], -cb) \/ RGe(S[1], cb)
        \/ RLe(S[2], -cb) \/ RGe(S[2], cb)
        \/ RLe(S[3], -1)  \/ RGe(S[3], 1)

\* _clipTestNeeded
_clipTestNeeded(t, cb, b, M) == \E k \in 1..8 : _clip2(t, cb, Corners(b)[k], M)

\* ------------------------------------------------------------------------
\* The mesh walker
\* ------------------------------------------------------------------------

\* an ExtVec4 working slot before anything was written to it; indv (the vertex
\* index loaded in the slot), nproj and nshade (how many times the vertex in
\* the slot was projected and shaded since it was loaded) are not members of
\* ExtVec4 and are kept for the record
EmptySlot ==
    [x |-> UNSET, y |-> UNSET, z |-> UNSET, w |-> UNSET, color |-> UNSET, T |-> UNSET,
     P |-> UNSET, N |-> UNSET, missedP |-> UNSET, indn |-> UNSET, indt |-> UNSET,
     indv |-> UNSET, nproj |-> 0, nshade |-> 0]

\* the walker: the renderer t, the cursor f into the face stream (0-based), the
\* three slots QQA, QQB, QQC and pc = <<PC0, PC1, PC2>>, the slot each points to;
\* visits is not part of the program: the record of the passes of the inner loop
Walker(t) ==
    [t |-> t, f |-> 0, S |-> [A |-> EmptySlot, B |-> EmptySlot, C |-> EmptySlot],
     pc |-> <<"A", "B", "C">>, visits |-> <<>>]

\* variant: the normal index is read before the texture index
LoadIndicesNormalFirst(w, mesh, RASTER_TYPE, s, v) ==
    LET f1 == w.f + 1
        hasT == "TEXTURE" \in RASTER_TYPE
        hasN == "GOURAUD" \in RASTER_TYPE
        f2 == IF hasN \/ (mesh.normal # NULL) THEN f1 + 1 ELSE f1
        f3 == IF hasT \/ (mesh.texcoord # NULL) THEN f2 + 1 ELSE f2
    IN  [w EXCEPT !.f = f3,
                  !.S[s].indv = v,
                  !.S[s].indn = IF hasN THEN At(mesh.face, f1) ELSE @,
                  !.S[s].indt = IF hasT THEN At(mesh.face, f2) ELSE @]

\* if (TEXTURE) PC->indt = *(face++); else { if (tab_tex) face++; }
\* if (GOURAUD) PC->indn = *(face++); else { if (tab_norm) face++; }
\* for the slot named s, after the vertex index v was read at the cursor
LoadIndices(w, mesh, RASTER_TYPE, s, v) ==
    LET f1 == w.f + 1
        hasT == "TEXTURE" \in RASTER_TYPE
        hasN == "GOURAUD" \in RASTER_TYPE
        f2 == IF hasT \/ (mesh.texcoord # NULL) THEN f1 + 1 ELSE f1
        f3 == IF hasN \/ (mesh.normal # NULL) THEN f2 + 1 ELSE f2
    IN  [w EXCEPT !.f = f3,
                  !.S[s].indv = v,
                  !.S[s].indt = IF hasT THEN At(mesh.face, f1) ELSE @,
                  !.S[s].indn = IF hasN THEN At(mesh.face, f2) ELSE @]

\* PC->P = _r_modelViewM.mult1(tab_vert[v]); PC->missedP = true;
LoadPosition(w, mesh, s) ==
    [w EXCEPT !.S[s].P = mult1(w.t.r_modelViewM, At(mesh.vertice, w.S[s].indv)),
              !.S[s].missedP = TRUE,
              !.S[s].nproj = 0, !.S[s].nshade = 0]

\* one vertex of the first triangle of a chain, read into the slot named s
LoadVertex(w, mesh, RASTER_TYPE, s) ==
    LoadPosition(LoadIndices(w, mesh, RASTER_TYPE, s, At(mesh.face, w.f)), mesh, s)

\* the first triangle of a chain: three vertices read into PC0, PC1, PC2
LoadFirst(w, mesh, RASTER_TYPE) ==
    LoadVertex(LoadVertex(LoadVertex(w, mesh, RASTER_TYPE, w.pc[1]),
                          mesh, RASTER_TYPE, w.pc[2]),
               mesh, RASTER_TYPE, w.pc[3])

\* variant: PC0 and PC2 are swapped whatever the direction bit
SwapSlotsFirstAlways(w, nv2) ==
    [w EXCEPT !.pc = <<w.pc[3], w.pc[2], w.pc[1]>>]

\* swap(((nv2 & 32768) ? PC0 : PC1), PC2)
SwapSlots(w, nv2) ==
    [w EXCEPT !.pc = IF nv2 >= 32768 THEN <<w.pc[3], w.pc[2], w.pc[1]>>
                     ELSE <<w.pc[1], w.pc[3], w.pc[2]>>]

\* the new vertex nv2 & 32767 is read into PC2
LoadNew(w, mesh, RASTER_TYPE, nv2) ==
    LoadPosition(LoadIndices(w, mesh, RASTER_TYPE, w.pc[3], nv2 % 32768), mesh, w.pc[3])

\* the next triangle of a chain
LoadNext(w, mesh, RASTER_TYPE) ==
    LoadNew(SwapSlots(w, At(mesh.face, w.f)), mesh, RASTER_TYPE, At(mesh.face, w.f))

\* *((fVec4*)PC) = _projM * PC->P; then the ORTHO pseudo-depth or zdivide()
ProjectSlot(t, s) ==
    LET PC == Project(t, s.P)
    IN  [s EXCEPT !.x = PC[1], !.y = PC[2], !.z = PC[3], !.w = PC[4],
                  !.nproj = @ + 1]

SlotNeedClip(t, s) == NeedClip(t, s.P, <<s.x, s.y, s.z, s.w>>)

\* a slot cast to RasterizerVec4
SlotVec(s) == RVec(<<s.x, s.y, s.z, s.w>>, s.color, s.T, s.P)

\* the colour and normal of a slot in Gouraud shading
ShadeSlot(t, mesh, RASTER_TYPE, icu, s, g) ==
    [s EXCEPT !.N = mult0(t.r_modelViewM, At(mesh.normal, s.indn)),
              !.color = GouraudColor(t, RASTER_TYPE, icu, At(mesh.normal, s.indn), g),
              !.nshade = @ + 1]

\* variant: the slot named s is projected whatever its flag
ProjectAtUnconditional(w, s, always) ==
    [w EXCEPT !.S[s] = ProjectSlot(w.t, @)]

\* the slot named s is projected: always (PC2), or if (PC->missedP) (PC0, PC1)
ProjectAt(w, s, always) ==
    IF always \/ w.S[s].missedP THEN [w EXCEPT !.S[s] = ProjectSlot(w.t, @)] ELSE w

\* the projection of PC2, PC0, PC1, in either branch of if (cliptestneeded)
ProjectAll(w) ==
    ProjectAt(ProjectAt(ProjectAt(w, w.pc[3], TRUE), w.pc[1], FALSE), w.pc[2], FALSE)

\* bool needclip, over PC2 and the vertices projected now
NeedClipSlots(w) ==
    \/ SlotNeedClip(w.t, w.S[w.pc[3]])
    \/ (w.S[w.pc[1]].missedP /\ SlotNeedClip(w.t, w.S[w.pc[1]]))
    \/ (w.S[w.pc[2]].missedP /\ SlotNeedClip(w.t, w.S[w.pc[2]]))

\* the slot named s is shaded: always (PC2), or if (PC->missedP) (PC0, PC1)
ShadeAt(w, mesh, RASTER_TYPE, icu, s, always, g) ==
    IF always \/ w.S[s].missedP
    THEN [w EXCEPT !.S[s] = ShadeSlot(w.t, mesh, RASTER_TYPE, icu, @, g),
                   !.t = NoteShaded(@, icu, {At(mesh.normal, w.S[s].indn)})]
    ELSE w

\* if (GOURAUD) { colour on vertices } else { colour on faces }
ShadeAll(w, mesh, RASTER_TYPE, faceN, cu, icu, g) ==
    IF "GOURAUD" \in RASTER_TYPE
    THEN ShadeAt(ShadeAt(ShadeAt(w, mesh, RASTER_TYPE, icu, w.pc[1], FALSE, g),
                         mesh, RASTER_TYPE, icu, w.pc[2], FALSE, g),
                 mesh, RASTER_TYPE, icu, w.pc[3], TRUE, g)
    ELSE [w EXCEPT !.t.uni.facecolor = FlatColor(w.t, RASTER_TYPE, cu, faceN, g)]

\* PC->T = tab_tex[PC->indt]: always (PC2), or if (PC->missedP) (PC0, PC1)
TextureAt(w, mesh, s, always) ==
    IF always \/ w.S[s].missedP
    THEN [w EXCEPT !.S[s].T = At(mesh.texcoord, w.S[s].indt)]
    ELSE w

\* if (TEXTURE) { compute texture vectors if needed }
TextureAll(w, mesh, RASTER_TYPE) ==
    IF "TEXTURE" \in RASTER_TYPE
    THEN TextureAt(TextureAt(TextureAt(w, mesh, w.pc[1], FALSE), mesh, w.pc[2], FALSE),
                   mesh, w.pc[3], TRUE)
    ELSE w

\* attributes are now all up to date: PC0->missedP = PC1->missedP = PC2->missedP = false
ClearMissed(w) ==
    [w EXCEPT !.S.A.missedP = FALSE, !.S.B.missedP = FALSE, !.S.C.missedP = FALSE]

\* rasterizeTriangle(RASTER_TYPE, QQA, QQB, QQC, _ox, _oy, _uni)
RasterizeSlots(w, RASTER_TYPE) ==
    [w EXCEPT !.t = Rasterize(w.t, RASTER_TYPE, SlotVec(w.S.A), SlotVec(w.S.B),
                              SlotVec(w.S.C))]

\* variant: the flags of the slots are cleared also when the triangle is dropped
ShadeStepClearsWhenDropped(w, mesh, RASTER_TYPE, cliptestneeded, faceN, cu, g) ==
    IF cliptestneeded /\ NeedClipSlots(w) THEN ClearMissed(w)
    ELSE Then(ShadeAll(w, mesh, RASTER_TYPE, faceN, cu, GouraudIcu(w.t, cu), g),
              LAMBDA w1 : RasterizeSlots(ClearMissed(TextureAll(w1, mesh, RASTER_TYPE)),
                                         RASTER_TYPE))

\* the triangle of the slots, once projected: dropped if it needs clipping,
\* else shaded and submitted
ShadeStep(w, mesh, RASTER_TYPE, cliptestneeded, faceN, cu, g) ==
    IF cliptestneeded /\ NeedClipSlots(w) THEN w
    ELSE Then(ShadeAll(w, mesh, RASTER_TYPE, faceN, cu, GouraudIcu(w.t, cu), g),
              LAMBDA w1 : RasterizeSlots(ClearMissed(TextureAll(w1, mesh, RASTER_TYPE)),
                                         RASTER_TYPE))

\* if (cu * _culling_dir > 0) goto rasterize_next_triangle;
CullStep(w, mesh, RASTER_TYPE, cliptestneeded, faceN, cu, g) ==
    IF Culled(w.t, cu) THEN w
    ELSE Then(ProjectAll(w),
              LAMBDA w1 : ShadeStep(w1, mesh, RASTER_TYPE, cliptestneeded, faceN, cu, g))

\* fVec3 faceN = crossProduct(PC1->P - PC0->P, PC2->P - PC0->P);
SlotsFaceN(w) ==
    crossProduct(V3Sub(xyz(w.S[w.pc[2]].P), xyz(w.S[w.pc[1]].P)),
                 V3Sub(xyz(w.S[w.pc[3]].P), xyz(w.S[w.pc[1]].P)))

FaceStep(w, mesh, RASTER_TYPE, cliptestneeded, faceN, g) ==
    CullStep(w, mesh, RASTER_TYPE, cliptestneeded, faceN,
             FaceTest(w.t, faceN, w.S[w.pc[1]].P), g)

\* the record of one pass: the slots PC0, PC1, PC2 point to, the slots at the
\* start of the pass (S) and at the label (S2), and whether the pass submitted
VisitStep(w, mesh, RASTER_TYPE, cliptestneeded, g) ==
    Then(FaceStep(w, mesh, RASTER_TYPE, cliptestneeded, SlotsFaceN(w), g),
         LAMBDA w2 : [w2 EXCEPT !.visits =
                         Append(@, [pc |-> w.pc, S |-> w.S, S2 |-> w2.S,
                                    submitted |-> Len(w2.t.raster) > Len(w.t.raster)])])

\* one pass of the inner loop up to the label rasterize_next_triangle
TriangleStep(w, mesh, RASTER_TYPE, cliptestneeded, g) ==
    Then(w, LAMBDA w1 : VisitStep(w1, mesh, RASTER_TYPE, cliptestneeded, g))

RECURSIVE ChainLoop(_, _, _, _, _, _)
\* the inner while (1) loop from the label rasterize_next_triangle on: nbt
\* triangles are left in the chain, the first of them was handled
ChainLoop(w, mesh, RASTER_TYPE, cliptestneeded, nbt, g) ==
    IF nbt - 1 = 0 THEN w
    ELSE Then(TriangleStep(LoadNext(w, mesh, RASTER_TYPE), mesh, RASTER_TYPE,
                           cliptestneeded, g),
              LAMBDA w1 : ChainLoop(w1, mesh, RASTER_TYPE, cliptestneeded, nbt - 1, g))

\* a chain of nbt triangles, nbt read at the cursor
Chain(w, mesh, RASTER_TYPE, cliptestneeded, nbt, g) ==
    Then(TriangleStep(LoadFirst([w EXCEPT !.f = @ + 1], mesh, RASTER_TYPE),
                      mesh, RASTER_TYPE, cliptestneeded, g),
         LAMBDA w1 : ChainLoop(w1, mesh, RASTER_TYPE, cliptestneeded, nbt, g))

RECURSIVE FaceLoop(_, _, _, _, _)
\* while ((nbt = *(face++)) > 0)
FaceLoop(w, mesh, RASTER_TYPE, cliptestneeded, g) ==
    IF ~(At(mesh.face, w.f) > 0) THEN w
    ELSE FaceLoop(Chain(w, mesh, RASTER_TYPE, cliptestneeded, At(mesh.face, w.f), g),
                  mesh, RASTER_TYPE, cliptestneeded, g)

\* template<int RASTER_TYPE> void _drawMesh(mesh)
_drawMesh(t, RASTER_TYPE, mesh, g) ==
    LET M == MatMul(t.projM, t.r_modelViewM)
        cliptestneeded == _clipTestNeeded(t, clipboundXY(t), mesh.bounding_box, M)
        t1 == [t EXCEPT !.uni.tex = mesh.texture]
    IN  IF _discard(t, mesh.bounding_box, M) THEN t
        ELSE Then(cliptestneeded,
                  LAMBDA needed : FaceLoop(Walker(t1), mesh, RASTER_TYPE, needed, g).t)

\* variant: the texture image of the mesh is not looked at
MeshRasterTypeNoImageTest(shader, mesh) ==
    LET r1 == IF mesh.normal = NULL THEN shader \ SHADER_GOURAUD ELSE shader
        r2 == IF mesh.texcoord = NULL THEN r1 \ SHADER_TEXTURE ELSE r1
    IN  r2 \cap (SHADER_GOURAUD \cup SHADER_TEXTURE)

\* raster_type of drawMesh for one mesh, as dispatched to _drawMesh<...>
MeshRasterType(shader, mesh) ==
    LET r1 == IF mesh.normal = NULL THEN shader \ SHADER_GOURAUD ELSE shader
        r2 == IF (mesh.texcoord = NULL) \/ (mesh.texture = NULL)
              THEN r1 \ SHADER_TEXTURE ELSE r1
    IN  r2 \cap (SHADER_GOURAUD \cup SHADER_TEXTURE)

\* variant: the object colour is not taken from the mesh
UseMeshMaterialKeepsColor(t, mesh) ==
    [t EXCEPT !.r_ambiantColor  = RGBScale(t.ambiantColor, mesh.ambiant_strength),
              !.r_diffuseColor  = RGBScale(t.diffuseColor, mesh.diffuse_strength),
              !.r_specularColor = RGBScale(t.specularColor, mesh.specular_strength)]

\* the cached material values for the material of a mesh
UseMeshMaterial(t, mesh) ==
    [t EXCEPT !.r_ambiantColor  = RGBScale(t.ambiantColor, mesh.ambiant_strength),
              !.r_diffuseColor  = RGBScale(t.diffuseColor, mesh.diffuse_strength),
              !.r_specularColor = RGBScale(t.specularColor, mesh.specular_strength),
              !.r_objectColor   = mesh.color]

\* variant: the object colour is left as the last mesh set it
RestoreMaterialNoColor(t) ==
    [t EXCEPT !.r_ambiantColor  = RGBScale(t.ambiantColor, t.ambiantStrength),
              !.r_diffuseColor  = RGBScale(t.diffuseColor, t.diffuseStrength),
              !.r_specularColor = RGBScale(t.specularColor, t.specularStrength)]

\* restore material pre-computed values
RestoreMaterial(t) ==
    [t EXCEPT !.r_ambiantColor  = RGBScale(t.ambiantColor, t.ambiantStrength),
              !.r_diffuseColor  = RGBScale(t.diffuseColor, t.diffuseStrength),
              !.r_specularColor = RGBScale(t.specularColor, t.specularStrength),
              !.r_objectColor   = t.color]

\* the record of a mesh drawn: its place k in the chain, its shading mode, the
\* places in raster of its first and last submission, and the material its
\* triangles were shaded with (the cached colour products and the exponent of
\* the power table)
LogMesh(t, k, rt, first) ==
    [t EXCEPT !.meshlog = Append(@, [k |-> k, type |-> rt, first |-> first,
                                     last |-> Len(t.raster),
                                     ambiant |-> t.r_ambiantColor,
                                     diffuse |-> t.r_diffuseColor,
                                     specular |-> t.r_specularColor,
                                     exponent |-> t.currentpow])]

\* the material of one mesh: the cached values and the power table
MeshMaterial(t, mesh, use_mesh_material) ==
    IF use_mesh_material
    THEN _precomputeSpecularTable(UseMeshMaterial(t, mesh), mesh.specular_exponent)
    ELSE _precomputeSpecularTable(t, t.specularExponent)

\* the body of while (mesh) for one mesh with a vertex array
DrawOneMesh(t, shader, mesh, use_mesh_material, k, g) ==
    Then(MeshMaterial(t, mesh, use_mesh_material),
         LAMBDA t1 : LogMesh(_drawMesh(t1, MeshRasterType(shader, mesh), mesh, g),
                             k, MeshRasterType(shader, mesh), Len(t.raster) + 1))

RECURSIVE MeshLoopUntilNoVertices(_, _, _, _, _, _, _)
\* variant: the walk stops at a mesh without a vertex array
MeshLoopUntilNoVertices(t, shader, mesh, use_mesh_material, draw_chained_meshes, k, g) ==
    IF mesh = NULL THEN t
    ELSE IF mesh.vertice = NULL THEN t
    ELSE Then(DrawOneMesh(t, shader, mesh, use_mesh_material, k, g),
              LAMBDA t1 : MeshLoopUntilNoVertices(t1, shader,
                              IF draw_chained_meshes THEN mesh.next ELSE NULL,
                              use_mesh_material, draw_chained_meshes, k + 1, g))

RECURSIVE MeshLoop(_, _, _, _, _, _, _)
\* while (mesh) { ...; mesh = ((draw_chained_meshes) ? mesh->next : nullptr); }
MeshLoop(t, shader, mesh, use_mesh_material, draw_chained_meshes, k, g) ==
    IF mesh = NULL THEN t
    ELSE Then(IF mesh.vertice # NULL
              THEN DrawOneMesh(t, shader, mesh, use_mesh_material, k, g)
              ELSE t,
              LAMBDA t1 : MeshLoop(t1, shader,
                                   IF draw_chained_meshes THEN mesh.next ELSE NULL,
                                   use_mesh_material, draw_chained_meshes, k + 1, g))

\* if (use_mesh_material) { restore material pre-computed values }
RestoreIf(t, use_mesh_material) == IF use_mesh_material THEN RestoreMaterial(t) ELSE t

\* int drawMesh(shader, mesh, use_mesh_material, draw_chained_meshes)
drawMesh(t, shader, mesh, use_mesh_material, draw_chained_meshes, g) ==
    IF ImageInvalid(t) THEN Return(t, -1)
    ELSE IF ZbufInvalid(t) THEN Return(t, -2)
    ELSE Return(RestoreIf(MeshLoop(t, shader, mesh, use_mesh_material,
                                   draw_chained_meshes, 1, g),
                          use_mesh_material), 0)

\* ------------------------------------------------------------------------
\* Setters (member functions as functions of the renderer record)
\* ------------------------------------------------------------------------

setImage(t, i) == [t EXCEPT !.im = i]

setOffset(t, x, y) ==
    [t EXCEPT !.ox = clamp(x, 0, MAXVIEWPORTDIMENSION),
              !.oy = clamp(y, 0, MAXVIEWPORTDIMENSION)]

setProjectionMatrix(t, M) == [t EXCEPT !.projM = invertYaxis(M)]

\* variant: the stored matrix is returned as it is
getProjectionMatrixAsStored(t) == t.projM

\* fMat4 M = _projM; M.invertYaxis(); return M;
getProjectionMatrix(t) == invertYaxis(t.projM)

setCulling(t, w) ==
    [t EXCEPT !.culling_dir = IF w > 0 THEN 1 ELSE (IF w < 0 THEN -1 ELSE 0)]

setZbuffer(t, zbuffer, length) ==
    [t EXCEPT !.uni.zbuf = zbuffer, !.zbuffer_len = length]

\* 1.0f / _r_modelViewM.mult0(fVec3{ 0,0,1 }).norm()
Inorm(MV) == fdiv(FIX * FIX, norm(ToFix(mult0(MV, <<0, 0, 1>>))))

\* the light part of the recompute: _r_light, _r_light_inorm, _r_H, _r_H_inorm
RecomputeLight(t) ==
    LET rl == normalize(ToFix(V3Neg(mult0(t.viewM, t.light))))
        rh == normalize(V3Add(<<0, 0, FIX>>, rl))
    IN  [t EXCEPT !.r_light = rl,
                  !.r_light_inorm = V3Scale(rl, t.r_inorm),
                  !.r_H = rh,
                  !.r_H_inorm = V3Scale(rh, t.r_inorm)]

setViewMatrix(t, M) ==
    LET mv == MatMul(M, t.modelM)
    IN  RecomputeLight([t EXCEPT !.viewM = M, !.r_modelViewM = mv, !.r_inorm = Inorm(mv)])

setLightDirection(t, direction) == RecomputeLight([t EXCEPT !.light = direction])

setLightAmbiant(t, c) ==
    [t EXCEPT !.ambiantColor = c, !.r_ambiantColor = RGBScale(c, t.ambiantStrength)]

setLightDiffuse(t, c) ==
    [t EXCEPT !.diffuseColor = c, !.r_diffuseColor = RGBScale(c, t.diffuseStrength)]

setLightSpecular(t, c) ==
    [t EXCEPT !.specularColor = c, !.r_specularColor = RGBScale(c, t.specularStrength)]

setLight(t, direction, a, d, sp) ==
    setLightSpecular(setLightDiffuse(setLightAmbiant(setLightDirection(t, direction), a), d), sp)

\* variant: the scaled halfway vector is not recomputed
setModelMatrixStaleHalfway(t, M) ==
    LET mv == MatMul(t.viewM, M)
        in == Inorm(mv)
    IN  [t EXCEPT !.modelM = M, !.r_modelViewM = mv, !.r_inorm = in,
                  !.r_light_inorm = V3Scale(t.r_light, in)]

\* _modelM = M; then the recompute of what depends on it
setModelMatrix(t, M) ==
    LET mv == MatMul(t.viewM, M)
        in == Inorm(mv)
    IN  [t EXCEPT !.modelM = M, !.r_modelViewM = mv, !.r_inorm = in,
                  !.r_light_inorm = V3Scale(t.r_light, in),
                  !.r_H_inorm = V3Scale(t.r_H, in)]

setMaterialColor(t, c) == [t EXCEPT !.color = c, !.r_objectColor = c]

setMaterialAmbiantStrength(t, strenght) ==
    LET v == clamp(strenght, 0, 10 * FIX)
    IN  [t EXCEPT !.ambiantStrength = v, !.r_ambiantColor = RGBScale(t.ambiantColor, v)]

setMaterialDiffuseStrength(t, strenght) ==
    LET v == clamp(strenght, 0, 10 * FIX)
    IN  [t EXCEPT !.diffuseStrength = v, !.r_diffuseColor = RGBScale(t.diffuseColor, v)]

setMaterialSpecularStrength(t, strenght) ==
    LET v == clamp(strenght, 0, 10 * FIX)
    IN  [t EXCEPT !.specularStrength = v, !.r_specularColor = RGBScale(t.specularColor, v)]

setMaterialSpecularExponent(t, exponent) ==
    [t EXCEPT !.specularExponent = clamp(exponent, 0, 100)]

setMaterial(t, c, a, d, sp, e) ==
    setMaterialSpecularExponent(
        setMaterialSpecularStrength(
            setMaterialDiffuseStrength(
                setMaterialAmbiantStrength(setMaterialColor(t, c), a), d), sp), e)

\* ------------------------------------------------------------------------
\* Construction
\* ------------------------------------------------------------------------

\* Projection matrices with integer entries, as passed to setProjectionMatrix:
\* a frustum with near plane 1 and far plane 3 (w = -z), and the orthographic
\* box [-1,1] x [-1,1] with the same planes.
PerspM == << <<1, 0, 0, 0>>, <<0, 1, 0, 0>>, <<0, 0, -2, -3>>, <<0, 0, -1, 0>> >>

OrthoM == << <<1, 0, 0, 0>>, <<0, 1, 0, 0>>, <<0, 0, -1, -2>>, <<0, 0, 0, 1>> >>

\* a frustum with near plane 10 and far plane 30 (w = -z)
DeepPerspM == << <<1, 0, 0, 0>>, <<0, 1, 0, 0>>, <<0, 0, -2, -30>>, <<0, 0, -1, 0>> >>

\* The constructor's projection.  setPerspective(45, 1.5, 1, 1000) and
\* setOrtho(-16, 16, -12, 12, 1, 1000) have non-integer entries; the model
\* starts from the integer matrix of the same kind.
DefaultProjM(ortho) == IF ortho THEN OrthoM ELSE PerspM

\* the members before the constructor body runs.  Those the initializer list
\* leaves out are overwritten by the body, and the state after construction
\* does not depend on the values they are given here.
Members(lx, ly, zb, ortho) ==
    [ LX |-> lx, LY |-> ly, ZBUFFER |-> zb, ORTHO |-> ortho,
      ox |-> 0, oy |-> 0, im |-> NULL, projM |-> Identity,
      zbuffer_len |-> 0, uni |-> [zbuf |-> NULL, facecolor |-> WHITE, tex |-> NULL],
      culling_dir |-> 1,
      viewM |-> Identity, light |-> <<0, 0, -1>>, ambiantColor |-> WHITE,
      diffuseColor |-> WHITE, specularColor |-> WHITE,
      modelM |-> Identity, color |-> WHITE, ambiantStrength |-> 0,
      diffuseStrength |-> 0, specularStrength |-> 0, specularExponent |-> 0,
      r_modelViewM |-> Identity, r_inorm |-> FIX, r_light |-> <<0, 0, FIX>>,
      r_light_inorm |-> <<0, 0, FIX>>, r_H |-> <<0, 0, FIX>>, r_H_inorm |-> <<0, 0, FIX>>,
      r_ambiantColor |-> WHITE, r_diffuseColor |-> WHITE, r_specularColor |-> WHITE,
      r_objectColor |-> WHITE,
      currentpow |-> -1, powfact |-> 0, fastpowtab |-> [k \in 1..POWTABSIZE |-> 0],
      raster |-> <<>>, deref |-> {}, nullread |-> {}, meshlog |-> <<>>, ret |-> 0 ]

\* Renderer3D::Renderer3D()
Renderer3D(lx, ly, zb, ortho) ==
    LET t0 == Members(lx, ly, zb, ortho)
        t1 == setProjectionMatrix(t0, DefaultProjM(ortho))
        t2 == setViewMatrix(t1, Identity)
        t3 == setLight(t2, <<-1, -1, -1>>, WHITE, WHITE, WHITE)
        t4 == setModelMatrix(t3, Identity)
        t5 == setMaterial(t4, RGBf((75 * FIX) \div 100, (75 * FIX) \div 100, (75 * FIX) \div 100),
                          (15 * FIX) \div 100, (70 * FIX) \div 100, (50 * FIX) \div 100, 16)
    IN  _precomputeSpecularTable(t5, 16)

\* ------------------------------------------------------------------------
\* Actions
\* ------------------------------------------------------------------------

NoCall == [op |-> "none"]

\* every member of the renderer takes its value from the record n
CommitState(n) ==
    /\ ox' = n.ox /\ oy' = n.oy /\ im' = n.im /\ projM' = n.projM
    /\ zbuffer_len' = n.zbuffer_len /\ uni' = n.uni /\ culling_dir' = n.culling_dir
    /\ viewM' = n.viewM /\ light' = n.light /\ ambiantColor' = n.ambiantColor
    /\ diffuseColor' = n.diffuseColor /\ specularColor' = n.specularColor
    /\ modelM' = n.modelM /\ color' = n.color
    /\ ambiantStrength' = n.ambiantStrength /\ diffuseStrength' = n.diffuseStrength
    /\ specularStrength' = n.specularStrength
    /\ specularExponent' = n.specularExponent
    /\ r_modelViewM' = n.r_modelViewM /\ r_inorm' = n.r_inorm
    /\ r_light' = n.r_light /\ r_light_inorm' = n.r_light_inorm
    /\ r_H' = n.r_H /\ r_H_inorm' = n.r_H_inorm
    /\ r_ambiantColor' = n.r_ambiantColor /\ r_diffuseColor' = n.r_diffuseColor
    /\ r_specularColor' = n.r_specularColor /\ r_objectColor' = n.r_objectColor
    /\ currentpow' = n.currentpow /\ powfact' = n.powfact
    /\ fastpowtab' = n.fastpowtab
    /\ UNCHANGED tmplVars

\* a setter call: the renderer becomes n; the record of the last draw call is reset
Set(n) ==
    /\ ~trapped
    /\ CommitState(n)
    /\ call' = NoCall /\ ret' = 0 /\ raster' = <<>> /\ meshlog' = <<>> /\ deref' = {}
    /\ UNCHANGED trapped

\* what a read through a null pointer or outside the power table may yield:
\* a normal, a texture coordinate, a float
G0 == [n |-> <<0, 0, 0>>, t |-> <<0, 0>>, f |-> 0]

Garbage == {G0, [n |-> <<0, 0, -FIX>>, t |-> <<FIX, FIX>>, f |-> FIX]}

\* the call returns: the renderer and the record of the call are those of r
Returned(r) ==
    /\ CommitState(r)
    /\ ret' = r.ret /\ raster' = r.raster /\ meshlog' = r.meshlog /\ deref' = r.deref
    /\ UNCHANGED trapped

\* the call traps at its read through a null pointer or outside the power
\* table: it does not return, and
\* the program makes no further call
Trapped(r) ==
    /\ trapped' = TRUE
    /\ ret' = 0 /\ raster' = <<>> /\ meshlog' = <<>> /\ deref' = r.deref
    /\ UNCHANGED <<tmplVars, generalVars, uni, sceneVars, modelVars, geomCache,
                   matCache, powVars>>

\* a draw call c whose effect on the renderer, given what its invalid reads
\* yield, is F.  A call that reads through a null pointer either goes on with
\* what lies at that address or traps; a call that makes no such read does not
\* depend on g.
Draw(c, F(_)) ==
    /\ ~trapped
    /\ call' = c
    /\ \E r0 \in {F(G0)} :
          IF r0.nullread = {} THEN Returned(r0)
          ELSE \E g \in Garbage : \E r \in {F(g)} : \E o \in {"return", "trap"} :
                  IF o = "return" THEN Returned(r) ELSE Trapped(r)

DrawTriangle(shader, P) ==
    Draw([op |-> "drawTriangle", shader |-> shader, P |-> P],
         LAMBDA g : drawTriangle(This, shader, P, g))

DrawTriangleN(shader, P, N) ==
    Draw([op |-> "drawTriangleN", shader |-> shader, P |-> P, N |-> N],
         LAMBDA g : drawTriangleN(This, shader, P, N, g))

DrawTriangleT(shader, P, T, texture) ==
    Draw([op |-> "drawTriangleT", shader |-> shader, P |-> P, T |-> T,
          texture |-> texture],
         LAMBDA g : drawTriangleT(This, shader, P, T, texture, g))

DrawTriangleNT(shader, P, N, T, texture) ==
    Draw([op |-> "drawTriangleNT", shader |-> shader, P |-> P, N |-> N, T |-> T,
          texture |-> texture],
         LAMBDA g : drawTriangleNT(This, shader, P, N, T, texture, g))

DrawQuad(shader, P) ==
    Draw([op |-> "drawQuad", shader |-> shader, P |-> P],
         LAMBDA g : drawQuad(This, shader, P, g))

DrawQuadN(shader, P, N) ==
    Draw([op |-> "drawQuadN", shader |-> shader, P |-> P, N |-> N],
         LAMBDA g : drawQuadN(This, shader, P, N, g))

DrawQuadT(shader, P, T, texture) ==
    Draw([op |-> "drawQuadT", shader |-> shader, P |-> P, T |-> T,
          texture |-> texture],
         LAMBDA g : drawQuadT(This, shader, P, T, texture, g))

DrawQuadNT(shader, P, N, T, texture) ==
    Draw([op |-> "drawQuadNT", shader |-> shader, P |-> P, N |-> N, T |-> T,
          texture |-> texture],
         LAMBDA g : drawQuadNT(This, shader, P, N, T, texture, g))

DrawTriangles(shader, a) ==
    Draw([op |-> "drawTriangles", shader |-> shader, a |-> a],
         LAMBDA g : drawTriangles(This, shader, a, g))

DrawQuads(shader, a) ==
    Draw([op |-> "drawQuads", shader |-> shader, a |-> a],
         LAMBDA g : drawQuads(This, shader, a, g))

\* a: a.mesh, a.use_mesh_material, a.draw_chained_meshes
DrawMesh(shader, a) ==
    Draw([op |-> "drawMesh", shader |-> shader, a |-> a],
         LAMBDA g : drawMesh(This, shader, a.mesh, a.use_mesh_material,
                             a.draw_chained_meshes, g))

SetImage(i) == Set(setImage(This, i))

SetOffset(x, y) == Set(setOffset(This, x, y))

SetProjectionMatrix(M) == Set(setProjectionMatrix(This, M))

SetCulling(w) == Set(setCulling(This, w))

\* static_assert(ZBUFFER == true, ...)
SetZbuffer(zbuffer, length) == ZBUFFER /\ Set(setZbuffer(This, zbuffer, length))

SetViewMatrix(M) == Set(setViewMatrix(This, M))

SetLightDirection(d) == Set(setLightDirection(This, d))

SetLightAmbiant(c) == Set(setLightAmbiant(This, c))

SetLightDiffuse(c) == Set(setLightDiffuse(This, c))

SetLightSpecular(c) == Set(setLightSpecular(This, c))

SetModelMatrix(M) == Set(setModelMatrix(This, M))

SetMaterialColor(c) == Set(setMaterialColor(This, c))

SetMaterialAmbiantStrength(v) == Set(setMaterialAmbiantStrength(This, v))

SetMaterialDiffuseStrength(v) == Set(setMaterialDiffuseStrength(This, v))

SetMaterialSpecularStrength(v) == Set(setMaterialSpecularStrength(This, v))

SetMaterialSpecularExponent(e) == Set(setMaterialSpecularExponent(This, e))

SetLight(d, a, df, sp) == Set(setLight(This, d, a, df, sp))

SetMaterial(c, a, d, sp, e) == Set(setMaterial(This, c, a, d, sp, e))

\* ------------------------------------------------------------------------
\* Inputs of the calls
\* ------------------------------------------------------------------------

\* an Image object: isValid(), width(), height()
Image(lx, ly) == [valid |-> TRUE, lx |-> lx, ly |-> ly]

InvalidImage == [valid |-> FALSE, lx |-> 0, ly |-> 0]

\* the images a caller binds: none, an invalid one, one of the size of the
\* viewport, a tile of half the viewport in each direction
ImageOf(kind) ==
    CASE kind = "null"    -> NULL
      [] kind = "invalid" -> InvalidImage
      [] kind = "full"    -> Image(LX, LY)
      [] kind = "tile"    -> Image(LX \div 2, LY \div 2)

\* a depth buffer and the lengths a caller may announce for it
ZB == [buf |-> "zbuf"]

ZLenOf(kind) ==
    CASE kind = "zero"  -> 0
      [] kind = "tile"  -> (LX \div 2) * (LY \div 2)
      [] kind = "short" -> LX * LY - 1
      [] kind = "full"  -> LX * LY

TexA == [name |-> "texA"]

TexB == [name |-> "texB"]

Translate(x, y, z) == <<<<1, 0, 0, x>>, <<0, 1, 0, y>>, <<0, 0, 1, z>>, <<0, 0, 0, 1>>>>

Scale(M, k) == [i \in 1..4 |-> IF i <= 2 THEN [j \in 1..4 |-> k * M[i][j]] ELSE M[i]]

\* projection matrices a caller sets: the default one, one with twice the
\* zoom, the deeper frustum
ProjOf(kind) ==
    CASE kind = "default" -> DefaultProjM(ORTHO)
      [] kind = "zoom"    -> Scale(DefaultProjM(ORTHO), 2)
      [] kind = "deep"    -> DeepPerspM

\* unit normals and texture coordinates of the vertex arrays
NZ == <<0, 0, FIX>>

NX == <<FIX, 0, 0>>

Normals3 == <<NZ, NZ, NX>>

Normals4 == <<NZ, NZ, NX, NZ>>

Tex3 == <<<<0, 0>>, <<FIX, 0>>, <<0, FIX>>>>

Tex4 == <<<<0, 0>>, <<FIX, 0>>, <<FIX, FIX>>, <<0, FIX>>>>

\* positions, in view space under the identity model and view matrices:
\* in front of the camera and inside the frustum
PtA == <<-1, -1, -2>>

PtB == <<1, -1, -2>>

PtC == <<0, 1, -2>>

PtD == <<0, 0, -1>>

PtE == <<0, 0, -2>>

\* in front of the camera, outside the clip bound of a large viewport only
PWide == <<4, 0, -2>>

\* in front of the camera, outside every clip bound
PFar == <<8, 0, -2>>

\* behind the camera, and in its plane
PBehind == <<0, 0, 2>>

PBehind2 == <<1, 0, 2>>

PBehind3 == <<0, 1, 3>>

PEye == <<1, 1, 0>>

\* the corners of a quad facing the camera, counter-clockwise, and a fourth
\* corner that folds the quad
Corner0 == <<-1, -1, -2>>

Corner1 == <<1, -1, -2>>

Corner2 == <<1, 1, -2>>

Corner3 == <<-1, 1, -2>>

CornerFold == <<1, -2, -2>>

\* a triangle and the triangle of the reverse winding (P1, P3, P2)
Reversed(P) == <<P[1], P[3], P[2]>>

\* a quad and the quad of the reverse winding
ReversedQuad(P) == <<P[4], P[3], P[2], P[1]>>

\* the quad P with its fourth vertex replaced by the point X
Replaced(P, X) == [P EXCEPT ![4] = X]

\* the vertex, normal and texture coordinate arrays of the indexed batches
BatchVertices == <<PtA, PtB, PtC, PBehind, PFar>>

BatchNormals == <<NZ, NZ, NX, NZ, NZ>>

BatchTextures == <<<<0, 0>>, <<FIX, 0>>, <<0, FIX>>, <<FIX, FIX>>, <<0, 0>>>>

QuadVertices == <<Corner0, Corner1, Corner2, Corner3, PFar>>

RECURSIVE IndexLists(_, _)
\* the index arrays of n primitives, each primitive one of the index tuples of S
IndexLists(S, n) ==
    IF n = 0 THEN {<<>>}
    ELSE {i \o l : i \in S, l \in IndexLists(S, n - 1)}

\* the arguments of drawTriangles / drawQuads: nb primitives over the vertex
\* array V, with the pointers named in null passed as nullptr
Batch(V, ind, k, null, texture) ==
    [nb             |-> Len(ind) \div k,
     ind_vertices   |-> IF "ind_vertices" \in null THEN NULL ELSE ind,
     vertices       |-> IF "vertices" \in null THEN NULL ELSE V,
     ind_normals    |-> IF "ind_normals" \in null THEN NULL ELSE ind,
     normals        |-> IF "normals" \in null THEN NULL ELSE BatchNormals,
     ind_texture    |-> IF "ind_texture" \in null THEN NULL ELSE ind,
     textures       |-> IF "textures" \in null THEN NULL ELSE BatchTextures,
     texture_image  |-> texture]

BatchesOf(V, S, k, nulls, textures) ==
    {Batch(V, ind, k, null, x) :
        ind \in UNION {IndexLists(S, n) : n \in 1..MaxBatch},
        null \in nulls, x \in textures}

TriIndices == {<<0, 1, 2>>, <<0, 2, 1>>, <<0, 1, 3>>, <<0, 1, 4>>}

QuadIndices == {<<0, 1, 2, 3>>, <<3, 2, 1, 0>>, <<0, 1, 2, 4>>}

\* the material and the bounding box of the meshes
Red == RGBf(FIX, 0, 0)

Box(xmin, xmax, ymin, ymax, zmin, zmax) ==
    [xmin |-> xmin, xmax |-> xmax, ymin |-> ymin, ymax |-> ymax,
     zmin |-> zmin, zmax |-> zmax]

\* one element of a face stream: the vertex index (with the direction bit of a
\* continuation), then the texture index and the normal index when the mesh
\* has these arrays
Elem(v, hasT, hasN) ==
    <<v>> \o (IF hasT THEN <<v % 32768>> ELSE <<>>)
          \o (IF hasN THEN <<v % 32768>> ELSE <<>>)

RECURSIVE Elems(_, _, _)
Elems(c, hasT, hasN) ==
    IF c = <<>> THEN <<>>
    ELSE Elem(Head(c), hasT, hasN) \o Elems(Tail(c), hasT, hasN)

\* the face stream of a mesh made of one chain c of Len(c) - 2 triangles
FaceStream(c, hasT, hasN) == <<Len(c) - 2>> \o Elems(c, hasT, hasN) \o <<0>>

\* a Mesh3D object
Mesh(V, c, hasN, hasT, texture, box, next) ==
    [vertice |-> V,
     normal |-> IF hasN THEN BatchNormals ELSE NULL,
     texcoord |-> IF hasT THEN BatchTextures ELSE NULL,
     face |-> FaceStream(c, hasT, hasN),
     texture |-> texture,
     color |-> Red,
     ambiant_strength |-> FIX \div 4, diffuse_strength |-> FIX \div 2,
     specular_strength |-> FIX, specular_exponent |-> 8,
     bounding_box |-> box,
     next |-> next]

FrontBox == Box(-1, 1, -1, 1, -2, -2)

ZeroBox == Box(0, 0, 0, 0, 0, 0)

\* a mesh of one triangle or of a chain of two, facing the camera, with or
\* without normals, texture coordinates and texture
FrontMesh(c, hasN, hasT, texture, next) ==
    Mesh(QuadVertices, c, hasN, hasT, texture, FrontBox, next)

\* a mesh without a vertex array
EmptyMesh(next) == [FrontMesh(<<0, 1, 2>>, FALSE, FALSE, NULL, next) EXCEPT !.vertice = NULL]

\* a mesh whose bounding box was not computed, with its triangle four to five
\* units along +z of its origin
BackMesh(c) ==
    Mesh(<<<<0, 0, 4>>, <<1, 0, 4>>, <<0, 1, 5>>>>, c, FALSE, FALSE, NULL, ZeroBox, NULL)

\* the meshes without a successor, and the chains of two of them
SingleMeshes ==
    {FrontMesh(c, n, x, i, NULL) :
        c \in {<<0, 1, 2>>, <<0, 1, 2, 3>>, <<0, 2, 1, 32768 + 3>>},
        n \in BOOLEAN, x \in BOOLEAN, i \in {NULL, TexA}}

ChainedMeshes ==
    {[m EXCEPT !.next = n] : m \in SingleMeshes \cup {EmptyMesh(NULL)}, n \in SingleMeshes}

MeshArgs(meshes, ums, dcm) ==
    {[mesh |-> m, use_mesh_material |-> u, draw_chained_meshes |-> d] :
        m \in meshes, u \in ums, d \in dcm}

\* ------------------------------------------------------------------------
\* Specifications
\* ------------------------------------------------------------------------

Grey == RGBf((75 * FIX) \div 100, (75 * FIX) \div 100, (75 * FIX) \div 100)

AllShaders == SUBSET (SHADER_GOURAUD \cup SHADER_TEXTURE)

\* the state after construction, for the template arguments of D
InitWith(D) ==
    \E tp \in D.templates :
        \E n \in {Renderer3D(tp[1], tp[2], tp[3], tp[4])} :
            /\ LX = n.LX /\ LY = n.LY /\ ZBUFFER = n.ZBUFFER /\ ORTHO = n.ORTHO
            /\ ox = n.ox /\ oy = n.oy /\ im = n.im /\ projM = n.projM
            /\ zbuffer_len = n.zbuffer_len /\ uni = n.uni /\ culling_dir = n.culling_dir
            /\ viewM = n.viewM /\ light = n.light /\ ambiantColor = n.ambiantColor
            /\ diffuseColor = n.diffuseColor /\ specularColor = n.specularColor
            /\ modelM = n.modelM /\ color = n.color
            /\ ambiantStrength = n.ambiantStrength /\ diffuseStrength = n.diffuseStrength
            /\ specularStrength = n.specularStrength
            /\ specularExponent = n.specularExponent
            /\ r_modelViewM = n.r_modelViewM /\ r_inorm = n.r_inorm
            /\ r_light = n.r_light /\ r_light_inorm = n.r_light_inorm
            /\ r_H = n.r_H /\ r_H_inorm = n.r_H_inorm
            /\ r_ambiantColor = n.r_ambiantColor /\ r_diffuseColor = n.r_diffuseColor
            /\ r_specularColor = n.r_specularColor /\ r_objectColor = n.r_objectColor
            /\ currentpow = n.currentpow /\ powfact = n.powfact
            /\ fastpowtab = n.fastpowtab
            /\ call = NoCall /\ ret = 0 /\ raster = <<>> /\ meshlog = <<>>
            /\ deref = {} /\ trapped = FALSE

\* the calls of a program whose arguments are those of D
NextWith(D) ==
    \/ \E k \in D.images : SetImage(ImageOf(k))
    \/ \E o \in D.offsets : SetOffset(o[1], o[2])
    \/ \E k \in D.projs : SetProjectionMatrix(ProjOf(k))
    \/ SetProjectionMatrix(getProjectionMatrix(This))
    \/ \E w \in D.cullings : SetCulling(w)
    \/ \E z \in D.zbufs : SetZbuffer(z[1], ZLenOf(z[2]))
    \/ \E M \in D.views : SetViewMatrix(M)
    \/ \E d \in D.lightdirs : SetLightDirection(d)
    \/ \E c \in D.lightcols : SetLightAmbiant(c)
    \/ \E c \in D.lightcols : SetLightDiffuse(c)
    \/ \E c \in D.lightcols : SetLightSpecular(c)
    \/ \E d \in D.lightdirs, c \in D.lightcols : SetLight(d, c, c, c)
    \/ \E M \in D.models : SetModelMatrix(M)
    \/ \E c \in D.matcols : SetMaterialColor(c)
    \/ \E v \in D.ambs : SetMaterialAmbiantStrength(v)
    \/ \E v \in D.diffs : SetMaterialDiffuseStrength(v)
    \/ \E v \in D.specs : SetMaterialSpecularStrength(v)
    \/ \E e \in D.exponents : SetMaterialSpecularExponent(e)
    \/ \E c \in D.matcols, a \in D.ambs, d \in D.diffs, sp \in D.specs,
          e \in D.exponents : SetMaterial(c, a, d, sp, e)
    \/ \E sh \in D.shaders, P \in D.tris : DrawTriangle(sh, P)
    \/ \E sh \in D.shaders, P \in D.tris : DrawTriangleN(sh, P, Normals3)
    \/ \E sh \in D.shaders, P \in D.tris, x \in D.textures :
          DrawTriangleT(sh, P, Tex3, x)
    \/ \E sh \in D.shaders, P \in D.tris, x \in D.textures :
          DrawTriangleNT(sh, P, Normals3, Tex3, x)
    \/ \E sh \in D.shaders, P \in D.quads : DrawQuad(sh, P)
    \/ \E sh \in D.shaders, P \in D.quads : DrawQuadN(sh, P, Normals4)
    \/ \E sh \in D.shaders, P \in D.quads, x \in D.textures :
          DrawQuadT(sh, P, Tex4, x)
    \/ \E sh \in D.shaders, P \in D.quads, x \in D.textures :
          DrawQuadNT(sh, P, Normals4, Tex4, x)
    \/ \E sh \in D.shaders, a \in D.batches : DrawTriangles(sh, a)
    \/ \E sh \in D.shaders, a \in D.qbatches : DrawQuads(sh, a)
    \/ \E sh \in D.shaders, a \in D.meshes : DrawMesh(sh, a)

\* one renderer, one value for each argument
DBase ==
    [templates |-> {<<640, 480, TRUE, FALSE>>},
     images    |-> {"full"},
     offsets   |-> {<<0, 0>>},
     projs     |-> {"default"},
     cullings  |-> {1},
     zbufs     |-> {<<ZB, "full">>},
     views     |-> {Identity},
     lightdirs |-> {<<-1, -1, -1>>},
     lightcols |-> {WHITE},
     models    |-> {Identity},
     matcols   |-> {Grey},
     ambs      |-> {(15 * FIX) \div 100},
     diffs     |-> {(70 * FIX) \div 100},
     specs     |-> {(50 * FIX) \div 100},
     exponents |-> {16},
     shaders   |-> {SHADER_GOURAUD \cup SHADER_TEXTURE},
     tris      |-> {<<PtA, PtB, PtC>>},
     quads     |-> {<<Corner0, Corner1, Corner2, Corner3>>},
     textures  |-> {TexA},
     batches   |-> BatchesOf(BatchVertices, {<<0, 1, 2>>}, 3, {{}}, {TexA}),
     qbatches  |-> BatchesOf(QuadVertices, {<<0, 1, 2, 3>>}, 4, {{}}, {TexA}),
     meshes    |-> MeshArgs({FrontMesh(<<0, 1, 2>>, TRUE, TRUE, TexA, NULL)},
                            {TRUE}, {TRUE})]

\* the calls and their preconditions: every kind of image and depth buffer,
\* with and without a texture image and a vertex array
DStatus ==
    [DBase EXCEPT
        !.templates = {<<640, 480, TRUE, FALSE>>, <<2048, 2048, FALSE, TRUE>>},
        !.images    = {"null", "invalid", "full", "tile"},
        !.zbufs     = {<<NULL, "full">>, <<ZB, "tile">>, <<ZB, "short">>, <<ZB, "full">>},
        !.shaders   = {SHADER_FLAT, SHADER_GOURAUD \cup SHADER_TEXTURE},
        !.textures  = {NULL, TexA},
        !.batches   = BatchesOf(BatchVertices, {<<0, 1, 2>>}, 3,
                                {{}, {"vertices"}}, {NULL, TexA}),
        !.qbatches  = BatchesOf(QuadVertices, {<<0, 1, 2, 3>>}, 4,
                                {{}, {"ind_vertices"}}, {NULL, TexA})]

Init == InitWith(DStatus)

Next == NextWith(DStatus)

Spec == Init /\ [][Next]_vars

\* ------------------------------------------------------------------------
\* Status of the draw calls
\* ------------------------------------------------------------------------

\* the state is that after a draw call that returned
AfterDraw == call.op # "none" /\ ~trapped

ImageBound == im # NULL /\ im.valid

\* the depth buffer passes the test of the draw calls
DepthBufferBound == ZBUFFER => (uni.zbuf # NULL /\ zbuffer_len >= LX * LY)

TexturedPrimitives == {"drawTriangleT", "drawTriangleNT", "drawQuadT", "drawQuadNT"}

Batches == {"drawTriangles", "drawQuads"}

\* the texture image argument of the last call is null
NullTexture ==
    \/ call.op \in TexturedPrimitives /\ call.texture = NULL
    \/ call.op \in Batches /\ call.a.texture_image = NULL

\* C1: every draw entry point called while no image is bound, or while the
\* bound image is invalid, returns -1 and submits nothing to the rasterizer,
\* whatever the other arguments and the renderer state.
C1_NoImage ==
    (call.op # "none" /\ (im = NULL \/ ~im.valid))
        => (~trapped /\ ret = -1 /\ raster = <<>>)

\* a batch call made while an invalid image is bound has returned -1
C1_Witness ==
    /\ call.op = "drawQuads" /\ im # NULL /\ ~im.valid
    /\ ret = -1 /\ raster = <<>>

C3_AsStated ==
    (AfterDraw /\ ImageBound /\ DepthBufferBound /\ "TEXTURE" \in call.shader
        /\ NullTexture)
        => (ret = -3 /\ raster = <<>>)

\* C3: called with SHADER_TEXTURE and a null texture image while the image
\* and the depth buffer are valid, the textured drawTriangle and drawQuad
\* overloads return -3 and submit nothing; drawTriangles and drawQuads drop
\* SHADER_TEXTURE instead: they return -3 only for a null vertex or index
\* array, and else return 0 with every submission untextured.
C3_NullTexture ==
    (AfterDraw /\ ImageBound /\ DepthBufferBound /\ "TEXTURE" \in call.shader
        /\ NullTexture)
        => IF call.op \in TexturedPrimitives
           THEN ret = -3 /\ raster = <<>>
           ELSE IF call.a.ind_vertices = NULL \/ call.a.vertices = NULL
           THEN ret = -3 /\ raster = <<>>
           ELSE /\ ret = 0
                /\ \A i \in 1..Len(raster) : "TEXTURE" \notin raster[i].type

\* a textured quad overload called with a null texture image has returned -3
C3_Witness ==
    /\ call.op = "drawQuadNT" /\ ~trapped /\ ImageBound /\ DepthBufferBound
    /\ "TEXTURE" \in call.shader /\ call.texture = NULL
    /\ ret = -3 /\ raster = <<>>

\* C4: a depth buffer is accepted by the draw calls (no -2 status) whenever
\* it is non-null and its length is at least image.width() * image.height()
\* of the bound image, also when the image is smaller than the viewport.
C4_ImageSizedDepthBuffer ==
    (AfterDraw /\ ImageBound /\ ZBUFFER /\ uni.zbuf # NULL
        /\ zbuffer_len >= im.lx * im.ly)
        => ret # -2

\* ------------------------------------------------------------------------
\* Face culling of single triangles
\* ------------------------------------------------------------------------

\* triangles in front of the camera and inside the frustum (the first facing
\* the camera, the second seen edge-on, the third flat), a triangle with a
\* vertex behind the camera, and their reverses
FrontTriangles == {<<PtA, PtB, PtC>>, <<PtD, PtE, PtB>>, <<PtA, PtB, PtA>>}

ClippedTriangles == {<<PtA, PtB, PBehind>>}

DTri ==
    [DBase EXCEPT
        !.templates = {<<2048, 2048, FALSE, FALSE>>, <<640, 480, TRUE, TRUE>>},
        !.cullings  = {1, 0, -1},
        !.tris      = {P : P \in FrontTriangles \cup ClippedTriangles}
                      \cup {Reversed(P) : P \in FrontTriangles \cup ClippedTriangles}]

SpecTri == InitWith(DTri) /\ [][NextWith(DTri)]_vars

TriangleCalls == {"drawTriangle", "drawTriangleN", "drawTriangleT", "drawTriangleNT"}

\* the view-space positions of the vertices of P
ViewSpace(P) == [i \in DOMAIN P |-> mult1(r_modelViewM, P[i])]

\* every vertex of P passes the clip test
PassClipTest(P) ==
    \A i \in DOMAIN P :
        ~NeedClip(This, ViewSpace(P)[i], Project(This, ViewSpace(P)[i]))

\* the signed face test of the triangle of the first three vertices of P
FaceSign(P) ==
    FaceTest(This,
             crossProduct(V3Sub(xyz(ViewSpace(P)[2]), xyz(ViewSpace(P)[1])),
                          V3Sub(xyz(ViewSpace(P)[3]), xyz(ViewSpace(P)[1]))),
             ViewSpace(P)[1])

\* the step is the draw of the reverse of the triangle drawn by the call
\* before, by the same entry point and with the same other arguments, both
\* calls returning 0
ReversePair ==
    /\ call.op \in TriangleCalls /\ call'.op = call.op
    /\ call' = [call EXCEPT !.P = Reversed(call.P)]
    /\ ~trapped /\ ~trapped' /\ ret = 0 /\ ret' = 0
    /\ PassClipTest(call.P)

\* C6 as stated: for a triangle whose vertices pass the clip test and its
\* reverse, drawn under the same state, exactly one of the two is submitted
\* when the culling direction is +1 or -1, and both when it is 0.
C6_AsStated ==
    [][ReversePair =>
           IF culling_dir # 0
           THEN Len(raster) + Len(raster') = 1
           ELSE Len(raster) = 1 /\ Len(raster') = 1]_vars

\* C6: for a triangle whose vertices pass the clip test and its reverse, drawn
\* under the same state: with culling direction +1 or -1 exactly one of the
\* two is submitted, unless the face test gives 0 (a triangle seen edge-on or
\* of no area), when both are; with culling direction 0 both are submitted.
C6_ReversedWinding ==
    [][ReversePair =>
           IF culling_dir # 0 /\ FaceSign(call.P) # 0
           THEN Len(raster) + Len(raster') = 1
           ELSE Len(raster) = 1 /\ Len(raster') = 1]_vars

\* a triangle whose reverse faces the camera was drawn with culling enabled,
\* its vertices passing the clip test, and was culled: nothing was submitted
C6_Witness ==
    /\ call.op = "drawTriangleNT" /\ ~trapped /\ ret = 0
    /\ culling_dir = 1 /\ PassClipTest(call.P)
    /\ FaceSign(call.P) > 0 /\ FaceSign(Reversed(call.P)) < 0
    /\ raster = <<>>

\* ------------------------------------------------------------------------
\* Single quads
\* ------------------------------------------------------------------------

\* a quad facing the camera, its reverse, a quad folded along its diagonal
\* (its fourth vertex on the other side of the first edge), and quads with
\* the fourth vertex outside the frustum or behind the camera
FrontQuad == <<Corner0, Corner1, Corner2, Corner3>>

DQuad ==
    [DBase EXCEPT
        !.templates = {<<2048, 2048, FALSE, FALSE>>, <<640, 480, TRUE, TRUE>>},
        !.cullings  = {1, 0},
        !.shaders   = {SHADER_FLAT, SHADER_GOURAUD \cup SHADER_TEXTURE},
        !.quads     = {FrontQuad, ReversedQuad(FrontQuad),
                       Replaced(FrontQuad, CornerFold),
                       Replaced(FrontQuad, PFar), Replaced(FrontQuad, PBehind)}]

SpecQuad == InitWith(DQuad) /\ [][NextWith(DQuad)]_vars

QuadCalls == {"drawQuad", "drawQuadN", "drawQuadT", "drawQuadNT"}

\* the submission raster[i] is the triangle of the vertices a, b, c of the quad P
SubmittedAs(i, P, a, b, c) ==
    /\ raster[i].v[1].Q = ViewSpace(P)[a]
    /\ raster[i].v[2].Q = ViewSpace(P)[b]
    /\ raster[i].v[3].Q = ViewSpace(P)[c]

\* what the quad call is to submit: nothing when the face test on (P0,P1,P2)
\* culls it or one of its four vertices fails the clip test, and else
\* (P0,P1,P2) then (P0,P2,P3), with the same shading mode, offset and uniform
\* (face colour included) and the same data for the shared vertices P0 and P2
QuadSubmissions ==
    IF Culled(This, FaceSign(call.P)) \/ ~PassClipTest(call.P)
    THEN raster = <<>>
    ELSE /\ Len(raster) = 2
         /\ SubmittedAs(1, call.P, 1, 2, 3)
         /\ SubmittedAs(2, call.P, 1, 3, 4)
         /\ raster[1].type = raster[2].type
         /\ raster[1].ox = raster[2].ox /\ raster[1].oy = raster[2].oy
         /\ raster[1].uni = raster[2].uni
         /\ raster[1].v[1] = raster[2].v[1]
         /\ raster[1].v[3] = raster[2].v[2]

\* C7: a quad call that passed the image and depth buffer tests submits nothing
\* when the face test on (P0,P1,P2) culls the quad or a vertex fails the clip
\* test, and else submits (P0,P1,P2) then (P0,P2,P3) with the same shared
\* parameters and face colour.
C7_QuadSubmissions ==
    (call.op \in QuadCalls /\ ImageBound /\ DepthBufferBound) => QuadSubmissions

\* the same for the quad calls that return
C7_ReturnedQuads ==
    (call.op \in QuadCalls /\ ~trapped /\ ret = 0) => QuadSubmissions

\* C8: drawTriangle(shader,P1,P2,P3) and drawQuad(shader,P1,P2,P3,P4) read no
\* normal and no texture coordinate, whatever the shader argument, and submit
\* their primitive with flat shading and without texture.
C8_PositionsOnly ==
    (call.op \in {"drawTriangle", "drawQuad"}) =>
        /\ ~trapped
        /\ deref = {}
        /\ \A i \in 1..Len(raster) : raster[i].type = SHADER_FLAT

\* ------------------------------------------------------------------------
\* Meshes
\* ------------------------------------------------------------------------

FullMesh(next) == FrontMesh(<<0, 1, 2>>, TRUE, TRUE, TexA, next)

\* a chain of three meshes of which only the middle one has no normals
ChainOfThree == FullMesh(FrontMesh(<<0, 1, 2>>, FALSE, TRUE, TexA, FullMesh(NULL)))

\* a mesh whose material has an ambient strength of 11 and a specular
\* exponent of 101
GlowingMesh ==
    [FullMesh(NULL) EXCEPT !.ambiant_strength = 11 * FIX, !.specular_exponent = 101]

\* a mesh in front of the camera whose bounding box lies right of the image
MisplacedBoxMesh ==
    [FullMesh(NULL) EXCEPT !.bounding_box = Box(5, 6, -1, 1, -2, -2)]

\* the meshes of one triangle with every combination of normals, texture
\* coordinates and texture image, meshes of a chain of two triangles, and the
\* meshes whose bounding box was not computed
LoneMeshes ==
    {FrontMesh(<<0, 1, 2>>, n, x, i, NULL) : n \in BOOLEAN, x \in BOOLEAN, i \in {NULL, TexA}}
    \cup {FrontMesh(<<0, 1, 2, 3>>, TRUE, TRUE, TexA, NULL),
          FrontMesh(<<0, 2, 1, 32768 + 3>>, TRUE, FALSE, NULL, NULL)}
    \cup {BackMesh(<<0, 1, 2>>), BackMesh(<<0, 2, 1>>)}
    \cup {GlowingMesh, MisplacedBoxMesh}

DMesh ==
    [DBase EXCEPT
        !.templates = {<<640, 480, TRUE, FALSE>>, <<2048, 2048, FALSE, TRUE>>},
        !.models    = {Translate(0, 0, -2)},
        !.meshes    = MeshArgs(LoneMeshes, BOOLEAN, {TRUE})
                      \cup MeshArgs({ChainOfThree, EmptyMesh(FullMesh(NULL))},
                                    BOOLEAN, BOOLEAN)]

SpecMesh == InitWith(DMesh) /\ [][NextWith(DMesh)]_vars

\* C5: no submission to the rasterizer is a triangle whose three vertices all
\* have a view-space Z >= 0.
C5_NothingBehind ==
    \A i \in 1..Len(raster) : \E j \in 1..3 : raster[i].v[j].Q[3] < 0

RECURSIVE NthMesh(_, _)
\* the k-th mesh of the chain that starts with mesh m
NthMesh(m, k) == IF k = 1 THEN m ELSE NthMesh(m.next, k - 1)

\* the requested shader without SHADER_GOURAUD iff the mesh m has no normal
\* array and without SHADER_TEXTURE iff it has no texcoord array or no texture
Downgraded(shader, m) ==
    {f \in shader : /\ f = "GOURAUD" => m.normal # NULL
                    /\ f = "TEXTURE" => (m.texcoord # NULL /\ m.texture # NULL)}

\* C9: every mesh of the chain that drawMesh draws is drawn, and all its
\* triangles are submitted, with the requested shader without SHADER_GOURAUD
\* iff that mesh has no normal array and without SHADER_TEXTURE iff it has no
\* texcoord array or no texture image, whatever the other meshes of the chain.
C9_ShaderPerMesh ==
    (call.op = "drawMesh") =>
        \A e \in 1..Len(meshlog) :
            /\ meshlog[e].type = Downgraded(call.shader, NthMesh(call.a.mesh, meshlog[e].k))
            /\ \A i \in meshlog[e].first..meshlog[e].last :
                   raster[i].type = Downgraded(call.shader, NthMesh(call.a.mesh, meshlog[e].k))

\* a chain of three meshes was drawn with Gouraud shading requested: the first
\* and the third submitted their triangle with Gouraud shading, the second,
\* which has no normals, without
C9_Witness ==
    /\ call.op = "drawMesh" /\ ret = 0 /\ call.a.mesh = ChainOfThree
    /\ "GOURAUD" \in call.shader
    /\ Len(meshlog) = 3 /\ Len(raster) = 3
    /\ "GOURAUD" \in raster[1].type
    /\ "GOURAUD" \notin raster[2].type
    /\ "GOURAUD" \in raster[3].type

\* C10: a call of drawMesh leaves the cached material values (the ambient,
\* diffuse and specular colour products and the object colour) as they were
\* before the call, and changes nothing of the material, the light, and the
\* matrices set by the setters.
C10_MaterialRestored ==
    [][(call'.op = "drawMesh") =>
           UNCHANGED <<matCache, modelVars, sceneVars, geomCache, projM>>]_vars

\* drawMesh drew a mesh with the material of the mesh, whose colour is not the
\* colour of the renderer, and returned with the colour of the renderer cached
C10_Witness ==
    /\ call.op = "drawMesh" /\ ret = 0 /\ call.a.use_mesh_material
    /\ meshlog # <<>> /\ raster # <<>>
    /\ call.a.mesh.color # color
    /\ currentpow = call.a.mesh.specular_exponent
    /\ r_objectColor = color

\* ------------------------------------------------------------------------
\* The projection matrix
\* ------------------------------------------------------------------------

DProj ==
    [DBase EXCEPT
        !.templates = {<<640, 480, TRUE, FALSE>>, <<2048, 2048, FALSE, TRUE>>},
        !.images    = {"null", "full"},
        !.offsets   = {<<0, 0>>, <<320, 240>>},
        !.projs     = {"default", "zoom"},
        !.cullings  = {1, 0}]

SpecProj == InitWith(DProj) /\ [][NextWith(DProj)]_vars

\* C11: setProjectionMatrix(getProjectionMatrix()) leaves the stored
\* projection matrix as it was, and getProjectionMatrix() called after
\* setProjectionMatrix(M) returns M.
C11_ProjectionRoundTrip ==
    [][/\ SetProjectionMatrix(getProjectionMatrix(This)) => projM' = projM
       /\ \A k \in DProj.projs :
              SetProjectionMatrix(ProjOf(k)) => getProjectionMatrix(This)' = ProjOf(k)]_vars

\* the matrix with twice the zoom was set: it is stored with its Y axis
\* inverted and is retrieved as it was passed
C11_Witness ==
    /\ call.op = "none"
    /\ projM = invertYaxis(ProjOf("zoom")) /\ projM # ProjOf("zoom")
    /\ getProjectionMatrix(This) = ProjOf("zoom")

\* ------------------------------------------------------------------------
\* What a draw call depends on
\* ------------------------------------------------------------------------

\* the draw call c made on the renderer t
Redo(c, t, g) ==
    CASE c.op = "drawTriangle"   -> drawTriangle(t, c.shader, c.P, g)
      [] c.op = "drawTriangleN"  -> drawTriangleN(t, c.shader, c.P, c.N, g)
      [] c.op = "drawTriangleT"  -> drawTriangleT(t, c.shader, c.P, c.T, c.texture, g)
      [] c.op = "drawTriangleNT" -> drawTriangleNT(t, c.shader, c.P, c.N, c.T, c.texture, g)
      [] c.op = "drawQuad"       -> drawQuad(t, c.shader, c.P, g)
      [] c.op = "drawQuadN"      -> drawQuadN(t, c.shader, c.P, c.N, g)
      [] c.op = "drawQuadT"      -> drawQuadT(t, c.shader, c.P, c.T, c.texture, g)
      [] c.op = "drawQuadNT"     -> drawQuadNT(t, c.shader, c.P, c.N, c.T, c.texture, g)
      [] c.op = "drawTriangles"  -> drawTriangles(t, c.shader, c.a, g)
      [] c.op = "drawQuads"      -> drawQuads(t, c.shader, c.a, g)
      [] c.op = "drawMesh"       -> drawMesh(t, c.shader, c.a.mesh, c.a.use_mesh_material,
                                             c.a.draw_chained_meshes, g)

\* the renderer t with what no setter writes (the uniform face colour, the
\* texture pointer, the power table) as the constructor leaves it
AsConstructed(t) ==
    [t EXCEPT !.uni.facecolor = WHITE, !.uni.tex = NULL,
              !.currentpow = 16,
              !.powfact = PowTable(16).powfact,
              !.fastpowtab = PowTable(16).fastpowtab]

\* of a vertex handed to the rasterizer, what a shader of type ty reads
UsedOfVertex(v, ty) ==
    [x |-> v.x, y |-> v.y, z |-> v.z, w |-> v.w,
     color |-> IF "GOURAUD" \in ty THEN v.color ELSE UNSET,
     T |-> IF "TEXTURE" \in ty THEN v.T ELSE UNSET]

\* of a submission e, what the rasterizer of its type reads
UsedOf(e) ==
    [type |-> e.type, ox |-> e.ox, oy |-> e.oy, zbuf |-> e.uni.zbuf,
     facecolor |-> IF "GOURAUD" \in e.type THEN UNSET ELSE e.uni.facecolor,
     tex |-> IF "TEXTURE" \in e.type THEN e.uni.tex ELSE UNSET,
     v |-> [j \in 1..3 |-> UsedOfVertex(e.v[j], e.type)]]

UsedOfAll(r) == [i \in 1..Len(r) |-> UsedOf(r[i])]

\* C12: a draw call that returns has returned the status, and submitted the
\* triangles with the values of the attributes their shader uses, that the
\* same call returns and submits on a renderer with the same settable state
\* on which no draw call was made before.
C12_SameOutput ==
    [][(call'.op # "none" /\ ~trapped') =>
           /\ ret' = Redo(call', AsConstructed(This), G0).ret
           /\ UsedOfAll(raster') = UsedOfAll(Redo(call', AsConstructed(This), G0).raster)]_vars

\* the same for the calls that read through no null pointer
C12_SameOutputOfValidReads ==
    [][(call'.op # "none" /\ ~trapped'
            /\ Redo(call', AsConstructed(This), G0).nullread = {}) =>
           /\ ret' = Redo(call', AsConstructed(This), G0).ret
           /\ UsedOfAll(raster') = UsedOfAll(Redo(call', AsConstructed(This), G0).raster)]_vars

\* ------------------------------------------------------------------------
\* The walk along a chain of meshes
\* ------------------------------------------------------------------------

RECURSIVE ChainLength(_)
\* the number of meshes from m to the null link
ChainLength(m) == IF m = NULL THEN 0 ELSE 1 + ChainLength(m.next)

\* the places in the chain of the meshes drawMesh has to process: those with a
\* vertex array, among all of the chain or the head only
MeshesToProcess(a) ==
    LET n == IF a.draw_chained_meshes THEN ChainLength(a.mesh) ELSE 1
    IN  SelectSeq([k \in 1..n |-> k], LAMBDA k : NthMesh(a.mesh, k).vertice # NULL)

\* the places in the chain of the meshes the last call processed, in the order
\* in which it processed them
MeshesProcessed == [e \in 1..Len(meshlog) |-> meshlog[e].k]

\* C13 as stated: every call of drawMesh returns 0, having processed every
\* mesh of the chain that has a vertex array once, in link order (the head
\* only when draw_chained_meshes is false).
C13_AsStated ==
    (call.op = "drawMesh") =>
        ~trapped /\ ret = 0 /\ MeshesProcessed = MeshesToProcess(call.a)

\* C13: a call of drawMesh made while a valid image and a valid depth buffer
\* are bound returns 0, having processed every mesh of the chain that has a
\* vertex array once, in link order (the head only when draw_chained_meshes
\* is false); made otherwise, it processes no mesh.
C13_ChainWalk ==
    (call.op = "drawMesh") =>
        /\ ~trapped
        /\ IF ImageBound /\ DepthBufferBound
           THEN ret = 0 /\ MeshesProcessed = MeshesToProcess(call.a)
           ELSE ret < 0 /\ MeshesProcessed = <<>>

\* a chain whose head has no vertex array was walked: the head was skipped
\* and the second mesh was processed
C13_Witness ==
    /\ call.op = "drawMesh" /\ ret = 0 /\ call.a.draw_chained_meshes
    /\ call.a.mesh.vertice = NULL /\ call.a.mesh.next # NULL
    /\ MeshesProcessed = <<2>>

\* ------------------------------------------------------------------------
\* The range of the material
\* ------------------------------------------------------------------------

\* the cached product c of the light colour l by a strength is that of a
\* strength in [0, 10]
ProductInRange(c, l) ==
    \A i \in 1..3 : 0 <= c[i] /\ c[i] <= fmul(l[i], 10 * FIX)

\* C14: the strengths of the material lie in [0, 10] and its exponent in
\* [0, 100]; the power table left by a draw call that submitted a triangle
\* is built for an exponent in [0, 100]; and every mesh drawn by drawMesh was shaded with
\* cached colour products of strengths in [0, 10] and with a power table built
\* for an exponent in [0, 100].
C14_MaterialInRange ==
    /\ 0 <= ambiantStrength /\ ambiantStrength <= 10 * FIX
    /\ 0 <= diffuseStrength /\ diffuseStrength <= 10 * FIX
    /\ 0 <= specularStrength /\ specularStrength <= 10 * FIX
    /\ specularExponent \in 0..100
    /\ (AfterDraw /\ raster # <<>>) => currentpow \in 0..100
    /\ \A e \in 1..Len(meshlog) :
          /\ ProductInRange(meshlog[e].ambiant, ambiantColor)
          /\ ProductInRange(meshlog[e].diffuse, diffuseColor)
          /\ ProductInRange(meshlog[e].specular, specularColor)
          /\ meshlog[e].exponent \in 0..100

\* the same without the meshes drawn with their own material
C14_MaterialOfRendererInRange ==
    /\ 0 <= ambiantStrength /\ ambiantStrength <= 10 * FIX
    /\ 0 <= diffuseStrength /\ diffuseStrength <= 10 * FIX
    /\ 0 <= specularStrength /\ specularStrength <= 10 * FIX
    /\ specularExponent \in 0..100
    /\ (AfterDraw /\ raster # <<>>
            /\ ~(call.op = "drawMesh" /\ call.a.use_mesh_material)) =>
          /\ currentpow \in 0..100
          /\ \A e \in 1..Len(meshlog) :
                /\ ProductInRange(meshlog[e].ambiant, ambiantColor)
                /\ ProductInRange(meshlog[e].diffuse, diffuseColor)
                /\ ProductInRange(meshlog[e].specular, specularColor)
                /\ meshlog[e].exponent \in 0..100

\* ------------------------------------------------------------------------
\* The cached values
\* ------------------------------------------------------------------------

\* a model matrix that doubles every length
Doubling == << <<2, 0, 0, 0>>, <<0, 2, 0, 0>>, <<0, 0, 2, 0>>, <<0, 0, 0, 1>> >>

\* a view matrix that turns the scene a quarter turn about the Y axis
QuarterTurn == << <<0, 0, 1, 0>>, <<0, 1, 0, 0>>, <<-1, 0, 0, 0>>, <<0, 0, 0, 1>> >>

DCache ==
    [DBase EXCEPT
        !.views     = {Identity, QuarterTurn},
        !.models    = {Identity, Doubling},
        !.lightdirs = {<<-1, -1, -1>>, <<0, 0, -1>>},
        !.matcols   = {Grey, Red},
        !.ambs      = {(15 * FIX) \div 100, 11 * FIX}]

SpecCache == InitWith(DCache) /\ [][NextWith(DCache)]_vars

\* C15: in every state (after construction, after a setter, after a draw call
\* that returned) every cached value is the value computed from the matrices,
\* the light and the material.
C15_CacheConsistent ==
    ~trapped =>
        LET mv == MatMul(viewM, modelM)
            inorm == fdiv(FIX * FIX, norm(ToFix(mult0(mv, <<0, 0, 1>>))))
            rl == normalize(ToFix(V3Neg(mult0(viewM, light))))
            rh == normalize(V3Add(<<0, 0, FIX>>, rl))
        IN  /\ r_modelViewM = mv
            /\ r_inorm = inorm
            /\ r_light = rl
            /\ r_H = rh
            /\ r_light_inorm = V3Scale(rl, inorm)
            /\ r_H_inorm = V3Scale(rh, inorm)
            /\ r_ambiantColor = RGBScale(ambiantColor, ambiantStrength)
            /\ r_diffuseColor = RGBScale(diffuseColor, diffuseStrength)
            /\ r_specularColor = RGBScale(specularColor, specularStrength)
            /\ r_objectColor = color

\* a mesh was drawn with its own material after the model matrix that doubles
\* the lengths, the turned view, the light along -z, the red material and the
\* ambient strength 11 (stored as 10) were set, in this order or another
C15_Witness ==
    /\ call.op = "drawMesh" /\ ret = 0 /\ call.a.use_mesh_material /\ meshlog # <<>>
    /\ modelM = Doubling /\ viewM = QuarterTurn /\ light = <<0, 0, -1>>
    /\ color = Red /\ ambiantStrength = 10 * FIX
    /\ r_inorm = FIX \div 2
    /\ r_H_inorm # r_H

\* ------------------------------------------------------------------------
\* The clip test of the mesh walker
\* ------------------------------------------------------------------------

\* _drawMesh with the clip test made for every triangle, whatever
\* _clipTestNeeded says
DrawMeshTested(t, RASTER_TYPE, mesh, g) ==
    IF _discard(t, mesh.bounding_box, MatMul(t.projM, t.r_modelViewM)) THEN t
    ELSE FaceLoop(Walker([t EXCEPT !.uni.tex = mesh.texture]), mesh, RASTER_TYPE, TRUE, g).t

\* what the rasterizer reads of the submissions made for the mesh of the entry
\* e of the per-mesh record
SubmittedFor(e) == UsedOfAll(SubSeq(raster, e.first, e.last))

\* what it reads of the submissions the same mesh gets, with the same material,
\* when every triangle is clip-tested
SubmittedIfTested(e) ==
    LET m == NthMesh(call.a.mesh, e.k)
    IN  UsedOfAll(DrawMeshTested(MeshMaterial(This, m, call.a.use_mesh_material),
                                 e.type, m, G0).raster)

\* C16: for every mesh that drawMesh has drawn, the triangles submitted are
\* those submitted when every triangle of the mesh is clip-tested.
C16_ClipTestSkipped ==
    (call.op = "drawMesh" /\ ~trapped) =>
        \A i \in 1..Len(meshlog) : SubmittedFor(meshlog[i]) = SubmittedIfTested(meshlog[i])

\* the same for the meshes whose bounding box is not all zeros
C16_ClipTestSkippedWithBox ==
    (call.op = "drawMesh" /\ ~trapped) =>
        \A i \in 1..Len(meshlog) :
            NthMesh(call.a.mesh, meshlog[i].k).bounding_box # ZeroBox =>
                SubmittedFor(meshlog[i]) = SubmittedIfTested(meshlog[i])

\* ------------------------------------------------------------------------
\* The bounding-box reject
\* ------------------------------------------------------------------------

\* a projected coordinate r is below, above the fraction f = <<a, b>>, b > 0
BelowF(r, f) == RLt(<<r[1] * f[2], r[2]>>, f[1])

AboveF(r, f) == RGt(<<r[1] * f[2], r[2]>>, f[1])

SixBounds == {"left", "right", "top", "bottom", "near", "far"}

\* the transformed corner S violates the bound: the image rectangle with a
\* margin of one pixel, in the coordinates of the viewport, and the depth
\* range [-1, 1]
ViolatesBound(S, bound) ==
    CASE bound = "left"   -> BelowF(S[1], Frac(ox - 1, LX))
      [] bound = "right"  -> AboveF(S[1], Frac(ox + im.lx + 1, LX))
      [] bound = "top"    -> BelowF(S[2], Frac(oy - 1, LY))
      [] bound = "bottom" -> AboveF(S[2], Frac(oy + im.ly + 1, LY))
      [] bound = "near"   -> RLt(S[3], -1)
      [] bound = "far"    -> RGt(S[3], 1)

\* the box b is not all zeros and its 8 transformed corners all violate one
\* of the six bounds
BoxOutside(b) ==
    /\ b # ZeroBox
    /\ \E bound \in SixBounds :
          \A k \in 1..8 :
              ViolatesBound(ClipPoint(This, Corners(b)[k], MatMul(projM, r_modelViewM)),
                            bound)

\* _drawMesh without the bounding-box reject
DrawMeshUnrejected(t, RASTER_TYPE, mesh, g) ==
    FaceLoop(Walker([t EXCEPT !.uni.tex = mesh.texture]), mesh, RASTER_TYPE,
             _clipTestNeeded(t, clipboundXY(t), mesh.bounding_box,
                             MatMul(t.projM, t.r_modelViewM)), g).t

\* the mesh of the entry e of the per-mesh record was skipped as a whole iff
\* its box is outside: _discard says so, and the submissions made for the mesh
\* are none if the box is outside and those of the walk over its triangles if
\* it is not
RejectedIffOutside(e) ==
    LET m == NthMesh(call.a.mesh, e.k)
    IN  /\ _discard(This, m.bounding_box, MatMul(projM, r_modelViewM))
               = BoxOutside(m.bounding_box)
        /\ IF BoxOutside(m.bounding_box)
           THEN e.last < e.first
           ELSE SubmittedFor(e) =
                    UsedOfAll(DrawMeshUnrejected(
                                  MeshMaterial(This, m, call.a.use_mesh_material),
                                  e.type, m, G0).raster)

\* C17: drawMesh skips a mesh by the bounding-box reject if and only if the
\* bounding box of the mesh is not all zeros and there is one of the six
\* bounds that its 8 transformed corners all violate.
C17_BoxReject ==
    (call.op = "drawMesh" /\ ret = 0 /\ ~trapped) =>
        \A i \in 1..Len(meshlog) : RejectedIffOutside(meshlog[i])

\* a mesh whose triangle is visible was skipped because its box is outside,
\* and a mesh whose box is all zeros and whose origin is nearer than the near
\* plane was not
C17_Witness ==
    /\ call.op = "drawMesh" /\ ret = 0 /\ Len(meshlog) = 1
    /\ \/ /\ call.a.mesh = MisplacedBoxMesh
          /\ BoxOutside(call.a.mesh.bounding_box)
          /\ raster = <<>>
          /\ DrawMeshUnrejected(This, meshlog[1].type, call.a.mesh, G0).raster # <<>>
       \/ /\ call.a.mesh.bounding_box = ZeroBox
          /\ \A k \in 1..8 :
                ViolatesBound(ClipPoint(This, Corners(ZeroBox)[k],
                                        MatMul(projM, r_modelViewM)), "near")
          /\ ~_discard(This, ZeroBox, MatMul(projM, r_modelViewM))

\* ------------------------------------------------------------------------
\* The bounding-box reject and what of the box is in view
\* ------------------------------------------------------------------------

\* a model matrix: a turn about the y axis with a scaling, then a translation
\* that puts the origin of the mesh behind the camera on its left
AlongsideM ==
    << <<3, 0, 2, -12>>, <<0, 3, 0, 0>>, <<-2, 0, 3, 1>>, <<0, 0, 0, 1>> >>

\* a long mesh that runs alongside the camera, from behind it on its left to
\* beyond the right edge of the image, with its one triangle in the middle
\* of the view; the bounding box is the one of a wall of this length
WallBox == Box(0, 12, -1, 1, 0, 2)

WallMesh(c) ==
    Mesh(<< <<6, -1, 0>>, <<7, -1, 0>>, <<6, 1, 0>> >>, c, FALSE, FALSE, NULL,
         WallBox, NULL)

DBox ==
    [DBase EXCEPT
        !.projs  = {"default", "deep"},
        !.models = {Translate(0, 0, -2), AlongsideM},
        !.meshes = MeshArgs({WallMesh(<<0, 1, 2>>), WallMesh(<<0, 2, 1>>),
                             FullMesh(NULL), MisplacedBoxMesh},
                            {FALSE}, {TRUE})]

SpecBox == InitWith(DBox) /\ [][NextWith(DBox)]_vars

\* the points of the box b with integer coordinates: points of the convex
\* hull of its 8 corners
BoxPoints(b) ==
    {<<x, y, z>> : x \in b.xmin..b.xmax, y \in b.ymin..b.ymax, z \in b.zmin..b.zmax}

\* the point P of the mesh is in front of the eye (w > 0; w = 1 without
\* perspective), and projects inside the image rectangle and the depth range
InView(P) ==
    LET S  == mult1(MatMul(projM, r_modelViewM), P)
        l  == Frac(ox, LX)
        r  == Frac(ox + im.lx, LX)
        u  == Frac(oy, LY)
        d  == Frac(oy + im.ly, LY)
    IN  /\ S[4] > 0
        /\ S[1] * l[2] >= l[1] * S[4] /\ S[1] * r[2] <= r[1] * S[4]
        /\ S[2] * u[2] >= u[1] * S[4] /\ S[2] * d[2] <= d[1] * S[4]
        /\ S[3] >= -S[4] /\ S[3] <= S[4]

\* a corner of the box b is behind the eye or in its plane
CornerBehind(b) ==
    \E k \in 1..8 : mult1(MatMul(projM, r_modelViewM), Corners(b)[k])[4] <= 0

\* C18: the bounding-box reject is conservative: when _discard is true for the
\* box of a mesh that drawMesh walks, no point of the box is in front of the
\* eye and projects inside the image rectangle and the depth range [-1, 1],
\* also when corners of the box are behind the eye.
C18_RejectConservative ==
    (call.op = "drawMesh" /\ ret = 0 /\ ~trapped) =>
        \A i \in 1..Len(meshlog) :
            LET b == NthMesh(call.a.mesh, meshlog[i].k).bounding_box
            IN  _discard(This, b, MatMul(projM, r_modelViewM)) =>
                    \A P \in BoxPoints(b) : ~InView(P)

\* the same for the boxes of which no corner is behind the eye
C18_RejectConservativeInFront ==
    (call.op = "drawMesh" /\ ret = 0 /\ ~trapped) =>
        \A i \in 1..Len(meshlog) :
            LET b == NthMesh(call.a.mesh, meshlog[i].k).bounding_box
            IN  (/\ _discard(This, b, MatMul(projM, r_modelViewM))
                 /\ ~CornerBehind(b)) =>
                    \A P \in BoxPoints(b) : ~InView(P)

\* a mesh is skipped although its triangle, inside its box, is in view and
\* would have been submitted
C18_SkippedInView ==
    /\ call.op = "drawMesh" /\ ret = 0 /\ Len(meshlog) = 1
    /\ call.a.mesh = WallMesh(<<0, 1, 2>>)
    /\ raster = <<>>
    /\ \A k \in 1..3 : /\ call.a.mesh.vertice[k] \in BoxPoints(WallBox)
                       /\ InView(call.a.mesh.vertice[k])
    /\ DrawMeshUnrejected(This, meshlog[1].type, call.a.mesh, G0).raster # <<>>

\* ------------------------------------------------------------------------
\* The chains of the mesh walker
\* ------------------------------------------------------------------------

\* six vertices in view space under the identity matrices, five in view and
\* one (index 4) outside every clip bound, with a normal and a texture
\* coordinate of its own for each
StripVertices == <<Corner0, Corner1, Corner2, Corner3, PFar, PtE>>

StripNormals ==
    <<NZ, NX, <<0, FIX, 0>>, <<0, 0, -FIX>>, <<-FIX, 0, 0>>, <<0, -FIX, 0>>>>

StripTextures ==
    <<<<0, 0>>, <<FIX, 0>>, <<FIX, FIX>>, <<0, FIX>>, <<FIX \div 2, 0>>,
      <<FIX \div 2, FIX \div 2>>>>

StripBox == Box(-1, 8, -1, 1, -2, -2)

\* a mesh of one chain c over these vertices
StripMesh(c, hasN, hasT, texture) ==
    [Mesh(StripVertices, c, hasN, hasT, texture, StripBox, NULL) EXCEPT
        !.normal   = IF hasN THEN StripNormals ELSE NULL,
        !.texcoord = IF hasT THEN StripTextures ELSE NULL]

\* a mesh of the two chains c1 and c2
TwoStripMesh(c1, c2, hasN, hasT, texture) ==
    [StripMesh(c2, hasN, hasT, texture) EXCEPT
        !.face = SubSeq(FaceStream(c1, hasT, hasN), 1,
                        Len(FaceStream(c1, hasT, hasN)) - 1) \o @]

\* a fan and a strip of four triangles with both directions, the last one
\* out of the clip bounds; a chain whose first triangle is out of the clip
\* bounds and whose next two are in view, in both windings
LongChain == <<0, 1, 2, 3, 32768 + 5, 4>>

DroppedFirstChain == <<4, 2, 1, 32768 + 3, 0>>

DroppedFirstChainBack == <<4, 1, 2, 32768 + 3, 0>>

StripMeshes ==
    {StripMesh(c, n, n, i) :
        c \in {LongChain, DroppedFirstChain, DroppedFirstChainBack},
        n \in BOOLEAN, i \in {NULL, TexA}}
    \cup {TwoStripMesh(<<0, 1, 2, 3>>, <<4, 2, 1, 32768 + 3>>, TRUE, TRUE, TexA),
          TwoStripMesh(DroppedFirstChainBack, <<0, 1, 2>>, TRUE, TRUE, TexA)}

DWalk ==
    [DBase EXCEPT
        !.templates = {<<640, 480, TRUE, FALSE>>, <<2048, 2048, FALSE, TRUE>>},
        !.cullings  = {1, 0},
        !.meshes    = MeshArgs(StripMeshes, {TRUE}, {TRUE})]

SpecWalk == InitWith(DWalk) /\ [][NextWith(DWalk)]_vars

\* the walk of the mesh of the entry e of the per-mesh record
WalkOf(e) ==
    LET m == NthMesh(call.a.mesh, e.k)
        t == MeshMaterial(This, m, call.a.use_mesh_material)
    IN  FaceLoop(Walker([t EXCEPT !.uni.tex = m.texture]), m, e.type,
                 _clipTestNeeded(t, clipboundXY(t), m.bounding_box,
                                 MatMul(t.projM, t.r_modelViewM)), G0)

\* the entries of the per-mesh record whose mesh was walked
Walked == {i \in 1..Len(meshlog) :
              ~_discard(This, NthMesh(call.a.mesh, meshlog[i].k).bounding_box,
                        MatMul(projM, r_modelViewM))}

\* the number of indices of one element of the face stream of a mesh
ElemSize(m) ==
    1 + (IF m.texcoord # NULL THEN 1 ELSE 0) + (IF m.normal # NULL THEN 1 ELSE 0)

RECURSIVE ChainsOf(_, _, _)
\* the chains of a face stream read from the place i on: for each, the vertex
\* entries of its count + 2 elements
ChainsOf(face, i, size) ==
    IF face[i] = 0 THEN <<>>
    ELSE <<[j \in 1..(face[i] + 2) |-> face[i + 1 + (j - 1) * size]]>>
         \o ChainsOf(face, i + 1 + (face[i] + 2) * size, size)

\* the triangle that follows the triangle tri when the index n is read
NextTriangle(tri, n) ==
    IF n >= 32768 THEN <<tri[3], tri[2], n % 32768>> ELSE <<tri[1], tri[3], n % 32768>>

RECURSIVE TrianglesFrom(_, _)
TrianglesFrom(tri, rest) ==
    IF rest = <<>> THEN <<tri>>
    ELSE <<tri>> \o TrianglesFrom(NextTriangle(tri, Head(rest)), Tail(rest))

\* the triangles of a chain given by its vertex entries
TrianglesOfChain(c) == TrianglesFrom(SubSeq(c, 1, 3), SubSeq(c, 4, Len(c)))

RECURSIVE Concat(_)
Concat(ss) == IF ss = <<>> THEN <<>> ELSE Head(ss) \o Concat(Tail(ss))

\* the vertex indices in the slots PC0, PC1, PC2 at the start of a pass
TriangleOfVisit(v) == <<v.S[v.pc[1]].indv, v.S[v.pc[2]].indv, v.S[v.pc[3]].indv>>

\* two consecutive triangles of the chain c share exactly two vertices, when
\* the index read is not one of the triangle before
ShareTwo(c) ==
    LET T == TrianglesOfChain(c)
    IN  \A i \in 1..(Len(T) - 1) :
            (T[i + 1][3] \notin {T[i][1], T[i][2], T[i][3]}) =>
                Cardinality({T[i][1], T[i][2], T[i][3]}
                            \cap {T[i + 1][1], T[i + 1][2], T[i + 1][3]}) = 2

\* C19: in the mesh walker, reading a continuation index n after the triangle
\* (v0, v1, v2) makes the next triangle (v2, v1, n & 32767) when bit 15 of n is
\* set and (v0, v2, n & 32767) when it is clear; consecutive triangles of a
\* chain share two vertices, and a chain of count k yields exactly k triangles:
\* the passes of the walk of a mesh are the triangles of its chains in order,
\* and its submissions are the passes that submit.
C19_ChainTriangles ==
    (call.op = "drawMesh" /\ ret = 0 /\ ~trapped) =>
        \A i \in Walked :
            LET m  == NthMesh(call.a.mesh, meshlog[i].k)
                cs == ChainsOf(m.face, 1, ElemSize(m))
                w  == WalkOf(meshlog[i])
            IN  /\ [j \in 1..Len(w.visits) |-> TriangleOfVisit(w.visits[j])]
                       = Concat([j \in 1..Len(cs) |-> TrianglesOfChain(cs[j])])
                /\ \A j \in 1..Len(cs) :
                       /\ Len(TrianglesOfChain(cs[j])) = m.face[
                              1 + Len(Concat([l \in 1..(j - 1) |-> cs[l]])) * ElemSize(m)
                                + (j - 1)]
                       /\ ShareTwo(cs[j])
                /\ SubmittedFor(meshlog[i]) = UsedOfAll(w.t.raster)
                /\ Len(w.t.raster)
                       = Cardinality({j \in 1..Len(w.visits) : w.visits[j].submitted})

\* a mesh of two chains of two triangles was walked, one with a continuation
\* of each direction, and some of the triangles were submitted; so was a chain
\* of four triangles
C19_Witness ==
    /\ call.op = "drawMesh" /\ ret = 0 /\ Len(meshlog) = 1
    /\ raster # <<>>
    /\ \/ /\ call.a.mesh = TwoStripMesh(<<0, 1, 2, 3>>, <<4, 2, 1, 32768 + 3>>,
                                         TRUE, TRUE, TexA)
          /\ Len(WalkOf(meshlog[1]).visits) = 4
          /\ TriangleOfVisit(WalkOf(meshlog[1]).visits[2]) = <<0, 2, 3>>
          /\ TriangleOfVisit(WalkOf(meshlog[1]).visits[4]) = <<1, 2, 3>>
       \/ /\ call.a.mesh = StripMesh(LongChain, TRUE, TRUE, TexA)
          /\ Len(WalkOf(meshlog[1]).visits) = 4
          /\ TriangleOfVisit(WalkOf(meshlog[1]).visits[3]) = <<3, 2, 5>>
          /\ TriangleOfVisit(WalkOf(meshlog[1]).visits[4]) = <<3, 5, 4>>

\* ------------------------------------------------------------------------
\* The attributes of the slots of the mesh walker
\* ------------------------------------------------------------------------

\* the values of icu a Gouraud colour of the walk may have been computed with
IcuValues == IF culling_dir # 0 THEN {1} ELSE {1, -1}

\* the slot s holds the view-space position and the projected coordinates of
\* the vertex index loaded in it, and (when Gouraud) a colour of the normal
\* index, (when texturing) the texture coordinates of the texture index loaded
\* in it, for the mesh m drawn in the mode ty with the renderer t
UpToDate(s, m, ty, t) ==
    LET Q == mult1(t.r_modelViewM, At(m.vertice, s.indv))
    IN  /\ s.P = Q
        /\ <<s.x, s.y, s.z, s.w>> = Project(t, Q)
        /\ ("GOURAUD" \in ty) =>
               \E icu \in IcuValues :
                   s.color = GouraudColor(t, ty, icu, At(m.normal, s.indn), G0)
        /\ ("TEXTURE" \in ty) => s.T = At(m.texcoord, s.indt)

\* the place in raster of the submission of the pass j of the walk w of the
\* entry e
PlaceOf(e, w, j) ==
    e.first - 1 + Cardinality({l \in 1..j : w.visits[l].submitted})

\* a pass v that submits hands over the three slots, each up to date and none
\* flagged missing after it
SubmitsUpToDate(e, w, j, m, t) ==
    LET v == w.visits[j]
    IN  /\ raster[PlaceOf(e, w, j)].v
               = <<SlotVec(v.S2.A), SlotVec(v.S2.B), SlotVec(v.S2.C)>>
        /\ \A s \in {"A", "B", "C"} :
               /\ UpToDate(v.S2[s], m, e.type, t)
               /\ v.S2[s].missedP = FALSE

\* a pass v that drops its triangle leaves the flags as they were: the slots
\* it projected, all flagged missing before it, are flagged missing after it
DropsKeepFlags(v) ==
    /\ v.S[v.pc[3]].missedP = TRUE
    /\ \A s \in {"A", "B", "C"} : v.S2[s].missedP = v.S[s].missedP
    /\ \A s \in {"A", "B", "C"} : (v.S2[s].x # v.S[s].x) => v.S2[s].missedP = TRUE

\* C20: at every submission of the mesh walker each of the three slots holds
\* projected coordinates, and (when Gouraud) a colour and (when texturing)
\* texture coordinates, computed from the vertex, normal and texture indices
\* loaded in the slot; at the start of every pass a slot that is not flagged
\* missing is up to date, and a slot projected in a triangle that was dropped
\* is still flagged missing.
C20_SlotsUpToDate ==
    (call.op = "drawMesh" /\ ret = 0 /\ ~trapped) =>
        \A i \in Walked :
            LET e == meshlog[i]
                m == NthMesh(call.a.mesh, e.k)
                t == MeshMaterial(This, m, call.a.use_mesh_material)
                w == WalkOf(e)
            IN  /\ e.last - e.first + 1
                       = Cardinality({j \in 1..Len(w.visits) : w.visits[j].submitted})
                /\ \A j \in 1..Len(w.visits) :
                       /\ \A s \in {"A", "B", "C"} :
                              (w.visits[j].S[s].missedP = FALSE) =>
                                  UpToDate(w.visits[j].S[s], m, e.type, t)
                       /\ IF w.visits[j].submitted
                          THEN SubmitsUpToDate(e, w, j, m, t)
                          ELSE DropsKeepFlags(w.visits[j])

\* in Gouraud shading with a texture, the first triangle of a chain was
\* projected and dropped, and the next one, which keeps two of its vertices,
\* was submitted
C20_Witness ==
    /\ call.op = "drawMesh" /\ ret = 0 /\ Len(meshlog) = 1
    /\ meshlog[1].type = SHADER_GOURAUD \cup SHADER_TEXTURE
    /\ call.a.mesh \in {StripMesh(c, TRUE, TRUE, TexA) :
                           c \in {DroppedFirstChain, DroppedFirstChainBack}}
    /\ LET v == WalkOf(meshlog[1]).visits
       IN  /\ ~v[1].submitted
           /\ v[1].S2[v[1].pc[1]].x # v[1].S[v[1].pc[1]].x
           /\ v[2].submitted
           /\ v[3].submitted
    /\ Len(raster) = 2

\* ------------------------------------------------------------------------
\* How many times the walker projects and shades a vertex
\* ------------------------------------------------------------------------

SlotNames == {"A", "B", "C"}

\* the passes of the walk of the entry i of the per-mesh record
PassesOf(i) ==
    LET vs == WalkOf(meshlog[i]).visits
    IN  {[v |-> vs[j], type |-> meshlog[i].type] : j \in 1..Len(vs)}

\* at the label of the pass p no vertex in a slot was projected or shaded
\* more than once, and if the pass submitted, each was projected once and
\* (when Gouraud) shaded once
OnceEach(p) ==
    \A s \in SlotNames :
        /\ p.v.S2[s].nproj <= 1
        /\ p.v.S2[s].nshade <= 1
        /\ p.v.submitted =>
               /\ p.v.S2[s].nproj = 1
               /\ ("GOURAUD" \in p.type) => p.v.S2[s].nshade = 1

\* C21 as stated: a vertex that stays in a slot is projected and shaded never
\* more than once, and exactly once if a triangle using it survives.
C21_AsStated ==
    (call.op = "drawMesh" /\ ret = 0 /\ ~trapped) =>
        \A i \in Walked : \A p \in PassesOf(i) : OnceEach(p)

\* in the pass p: a vertex whose slot is not flagged missing is neither
\* projected nor shaded; a vertex is shaded only by a pass that submits, which
\* shades (when Gouraud) and projects the flagged ones once; a pass that
\* drops its triangle projects a flagged vertex once or not at all
LazyPass(p) ==
    \A s \in SlotNames :
        LET a == p.v.S[s]
            b == p.v.S2[s]
        IN  /\ b.nshade <= 1
            /\ (a.missedP = FALSE) => (b.nproj = a.nproj /\ b.nshade = a.nshade)
            /\ (a.missedP = TRUE /\ p.v.submitted) =>
                   /\ b.nproj = a.nproj + 1
                   /\ b.nshade = a.nshade + (IF "GOURAUD" \in p.type THEN 1 ELSE 0)
            /\ (a.missedP = TRUE /\ ~p.v.submitted) =>
                   /\ b.nproj \in {a.nproj, a.nproj + 1}
                   /\ b.nshade = a.nshade
            /\ p.v.submitted =>
                   /\ b.nproj >= 1
                   /\ ("GOURAUD" \in p.type) => b.nshade = 1

\* C21: a vertex that stays in a slot of the mesh walker is shaded at most
\* once, and exactly once (when Gouraud) if a triangle using it survives; it is
\* projected by the first surviving triangle that uses it and never after, and
\* at most once by each triangle dropped before.
C21_LazyAttributes ==
    (call.op = "drawMesh" /\ ret = 0 /\ ~trapped) =>
        \A i \in Walked : \A p \in PassesOf(i) : LazyPass(p)

\* a vertex projected in a triangle dropped by the clip test was projected
\* again and shaded once by the next triangle, which survived; and a vertex
\* of a surviving triangle was kept by the next surviving one
C21_Witness ==
    /\ call.op = "drawMesh" /\ ret = 0 /\ Len(meshlog) = 1
    /\ meshlog[1].type = SHADER_GOURAUD \cup SHADER_TEXTURE
    /\ call.a.mesh = StripMesh(DroppedFirstChain, TRUE, TRUE, TexA)
    /\ LET v == WalkOf(meshlog[1]).visits
       IN  /\ ~v[1].submitted /\ v[2].submitted /\ v[3].submitted
           /\ \E s \in SlotNames : v[2].S2[s].nproj = 2 /\ v[2].S2[s].nshade = 1
           /\ \E s \in SlotNames :
                  /\ v[3].S[s].missedP = FALSE
                  /\ v[3].S2[s].nproj = v[3].S[s].nproj

\* ------------------------------------------------------------------------
\* The mesh walker and the single-primitive pipeline
\* ------------------------------------------------------------------------

\* the submissions of _drawTriangle for the triangle decoded in the pass v of
\* the walk of the mesh m, in the mode ty, with the renderer t
PassAsTriangle(v, m, ty, t) ==
    LET s1 == v.S[v.pc[1]]
        s2 == v.S[v.pc[2]]
        s3 == v.S[v.pc[3]]
    IN  _drawTriangle([t EXCEPT !.raster = <<>>, !.uni.tex = m.texture], ty,
                      <<At(m.vertice, s1.indv), At(m.vertice, s2.indv),
                        At(m.vertice, s3.indv)>>,
                      IF "GOURAUD" \in ty
                      THEN <<At(m.normal, s1.indn), At(m.normal, s2.indn),
                             At(m.normal, s3.indn)>>
                      ELSE NULL,
                      IF "TEXTURE" \in ty
                      THEN <<At(m.texcoord, s1.indt), At(m.texcoord, s2.indt),
                             At(m.texcoord, s3.indt)>>
                      ELSE NULL,
                      G0).raster

\* of a submission, what the rasterizer reads, its three vertices as a set
UnorderedOf(e) ==
    [UsedOf(e) EXCEPT !.v = {UsedOfVertex(e.v[j], e.type) : j \in 1..3}]

\* the vertices of the bounding box b contain those of the mesh m
BoxHolds(m) ==
    \A k \in 1..Len(m.vertice) :
        /\ m.vertice[k][1] \in m.bounding_box.xmin..m.bounding_box.xmax
        /\ m.vertice[k][2] \in m.bounding_box.ymin..m.bounding_box.ymax
        /\ m.vertice[k][3] \in m.bounding_box.zmin..m.bounding_box.zmax

\* every pass of the walk of the entry i submits if and only if _drawTriangle
\* submits its triangle, and then the same vertices with the same colours and
\* texture coordinates, and the same face colour
SameAsTriangles(i) ==
    LET e == meshlog[i]
        m == NthMesh(call.a.mesh, e.k)
        t == MeshMaterial(This, m, call.a.use_mesh_material)
        w == WalkOf(e)
    IN  \A j \in 1..Len(w.visits) :
            LET r == PassAsTriangle(w.visits[j], m, e.type, t)
            IN  /\ w.visits[j].submitted <=> (r # <<>>)
                /\ w.visits[j].submitted =>
                       UnorderedOf(raster[PlaceOf(e, w, j)]) = UnorderedOf(r[1])

\* C22: for a mesh with a correct bounding box, drawMesh submits the same
\* surviving triangles, with the same colours of the vertices and of the
\* faces, as _drawTriangle for each decoded triangle of its face stream; with
\* culling disabled and Gouraud shading the colour of every vertex of a
\* submitted triangle has the orientation correction of that triangle.
C22_SameAsTriangles ==
    (call.op = "drawMesh" /\ ret = 0 /\ ~trapped) =>
        \A i \in Walked :
            BoxHolds(NthMesh(call.a.mesh, meshlog[i].k)) => SameAsTriangles(i)

\* the same when the culling is enabled or the shading is flat
C22_SameAsTrianglesNoCorrection ==
    (call.op = "drawMesh" /\ ret = 0 /\ ~trapped) =>
        \A i \in Walked :
            (/\ BoxHolds(NthMesh(call.a.mesh, meshlog[i].k))
             /\ (culling_dir # 0 \/ "GOURAUD" \notin meshlog[i].type)) =>
                SameAsTriangles(i)

\* ------------------------------------------------------------------------
\* The order of the vertices of a submission of the mesh walker
\* ------------------------------------------------------------------------

\* the three slots of the pass v at its label, in the order PC0, PC1, PC2
InSlotOrder(v) ==
    <<SlotVec(v.S2[v.pc[1]]), SlotVec(v.S2[v.pc[2]]), SlotVec(v.S2[v.pc[3]])>>

\* the cyclic orders of QQA, QQB, QQC: the values of <<PC0, PC1, PC2>> for
\* which (QQA, QQB, QQC) has the winding of (PC0, PC1, PC2)
SameWinding == {<<"A", "B", "C">>, <<"B", "C", "A">>, <<"C", "A", "B">>}

\* C23: every triangle the mesh walker submits is handed to the rasterizer
\* with its three vertices in the order slot 0, slot 1, slot 2 in which it was
\* decoded and face-culled.
C23_SlotOrder ==
    (call.op = "drawMesh" /\ ret = 0 /\ ~trapped) =>
        \A i \in Walked :
            LET w == WalkOf(meshlog[i])
            IN  \A j \in 1..Len(w.visits) :
                    w.visits[j].submitted =>
                        raster[PlaceOf(meshlog[i], w, j)].v = InSlotOrder(w.visits[j])

\* what the walker hands over is the three slots in the order QQA, QQB, QQC:
\* the vertices of the triangle, in the order of the slots when the pointers
\* are as declared, and with the winding of the slots exactly when the
\* pointers are a cyclic order of the three
C23_StorageOrder ==
    (call.op = "drawMesh" /\ ret = 0 /\ ~trapped) =>
        \A i \in Walked :
            LET w == WalkOf(meshlog[i])
            IN  \A j \in 1..Len(w.visits) :
                    w.visits[j].submitted =>
                        LET v == w.visits[j]
                            r == raster[PlaceOf(meshlog[i], w, j)].v
                        IN  /\ r = <<SlotVec(v.S2.A), SlotVec(v.S2.B), SlotVec(v.S2.C)>>
                            /\ {r[1], r[2], r[3]}
                                   = {InSlotOrder(v)[k] : k \in 1..3}
                            /\ (v.pc = <<"A", "B", "C">>) => r = InSlotOrder(v)
                            /\ (v.pc \in SameWinding) <=>
                                   (r \in {InSlotOrder(v),
                                           <<InSlotOrder(v)[2], InSlotOrder(v)[3],
                                             InSlotOrder(v)[1]>>,
                                           <<InSlotOrder(v)[3], InSlotOrder(v)[1],
                                             InSlotOrder(v)[2]>>})

\* ------------------------------------------------------------------------
\* The decoding of the face stream
\* ------------------------------------------------------------------------

\* a mesh of two triangles in a chain whose vertices have a texture index and
\* a normal index different from each other and from the vertex index
MixedIndexMesh(hasN, hasT, texture) ==
    [StripMesh(<<0, 1, 2, 3>>, hasN, hasT, texture) EXCEPT
        !.face = <<2>>
                 \o <<0>> \o (IF hasT THEN <<3>> ELSE <<>>) \o (IF hasN THEN <<1>> ELSE <<>>)
                 \o <<1>> \o (IF hasT THEN <<2>> ELSE <<>>) \o (IF hasN THEN <<5>> ELSE <<>>)
                 \o <<2>> \o (IF hasT THEN <<0>> ELSE <<>>) \o (IF hasN THEN <<3>> ELSE <<>>)
                 \o <<3>> \o (IF hasT THEN <<1>> ELSE <<>>) \o (IF hasN THEN <<0>> ELSE <<>>)
                 \o <<0>>]

DecodeMeshes ==
    {MixedIndexMesh(n, x, i) : n \in BOOLEAN, x \in BOOLEAN, i \in {NULL, TexA}}
    \cup {TwoStripMesh(<<0, 1, 2, 3>>, <<4, 2, 1, 32768 + 3>>, TRUE, TRUE, TexA)}

DDecode ==
    [DBase EXCEPT
        !.shaders = {SHADER_GOURAUD \cup SHADER_TEXTURE, SHADER_GOURAUD,
                     SHADER_TEXTURE, SHADER_FLAT},
        !.meshes  = MeshArgs(DecodeMeshes, {TRUE}, {TRUE})]

SpecDecode == InitWith(DDecode) /\ [][NextWith(DDecode)]_vars

\* the shading modes drawMesh can walk the mesh m in
TypesFor(m) ==
    {ty \in SUBSET (SHADER_GOURAUD \cup SHADER_TEXTURE) :
        /\ ("GOURAUD" \in ty) => m.normal # NULL
        /\ ("TEXTURE" \in ty) => (m.texcoord # NULL /\ m.texture # NULL)}

\* the walk of the mesh of the entry e in the shading mode ty
WalkAs(e, ty) ==
    LET m == NthMesh(call.a.mesh, e.k)
        t == MeshMaterial(This, m, call.a.use_mesh_material)
    IN  FaceLoop(Walker([t EXCEPT !.uni.tex = m.texture]), m, ty,
                 _clipTestNeeded(t, clipboundXY(t), m.bounding_box,
                                 MatMul(t.projM, t.r_modelViewM)), G0)

\* the element of the face stream of the mesh m at the place i: its vertex
\* entry, then its texture index if the mesh has texture coordinates, then its
\* normal index if the mesh has normals
ElemAt(m, i) ==
    [v |-> m.face[i],
     t |-> IF m.texcoord # NULL THEN m.face[i + 1] ELSE UNSET,
     n |-> IF m.normal # NULL
           THEN m.face[i + 1 + (IF m.texcoord # NULL THEN 1 ELSE 0)] ELSE UNSET]

RECURSIVE ElemChainsOf(_, _)
\* the chains of the face stream of m from the place i on, as elements
ElemChainsOf(m, i) ==
    IF m.face[i] = 0 THEN <<>>
    ELSE <<[j \in 1..(m.face[i] + 2) |-> ElemAt(m, i + 1 + (j - 1) * ElemSize(m))]>>
         \o ElemChainsOf(m, i + 1 + (m.face[i] + 2) * ElemSize(m))

\* the triangle of elements that follows tri when the element e is read
NextElems(tri, e) ==
    IF e.v >= 32768 THEN <<tri[3], tri[2], [e EXCEPT !.v = @ % 32768]>>
    ELSE <<tri[1], tri[3], [e EXCEPT !.v = @ % 32768]>>

RECURSIVE ElemsFrom(_, _)
ElemsFrom(tri, rest) ==
    IF rest = <<>> THEN <<tri>>
    ELSE <<tri>> \o ElemsFrom(NextElems(tri, Head(rest)), Tail(rest))

\* the triangles of the face stream of m, each three elements
ElemTriangles(m) ==
    LET cs == ElemChainsOf(m, 1)
    IN  Concat([j \in 1..Len(cs) |-> ElemsFrom(SubSeq(cs[j], 1, 3),
                                               SubSeq(cs[j], 4, Len(cs[j])))])

\* the number of entries of the face stream of m up to its end mark included
EntriesOf(m) ==
    LET cs == ElemChainsOf(m, 1)
    IN  Len(Concat(cs)) * ElemSize(m) + Len(cs) + 1

\* the walk w of the mesh m in the mode ty decodes the triangles of the
\* stream, with the texture and normal indices the mode reads, and stops at
\* the end mark
DecodesStream(w, m, ty) ==
    LET T == ElemTriangles(m)
    IN  /\ Len(w.visits) = Len(T)
        /\ w.f + 1 = EntriesOf(m)
        /\ At(m.face, w.f) = 0
        /\ \A j \in 1..Len(T) : \A k \in 1..3 :
               LET s == w.visits[j].S[w.visits[j].pc[k]]
               IN  /\ s.indv = T[j][k].v
                   /\ ("TEXTURE" \in ty) => s.indt = T[j][k].t
                   /\ ("GOURAUD" \in ty) => s.indn = T[j][k].n

\* C24: the triples of vertex indices the mesh walker decodes from a face
\* stream and the number of entries it consumes depend only on the stream and
\* on whether the mesh has texture coordinates and normals, not on the shading
\* mode: a vertex takes 1 entry, plus 1 for the texture index if the mesh has
\* texture coordinates, plus 1 for the normal index, after it, if the mesh has
\* normals.
C24_DecodeByArrays ==
    (call.op = "drawMesh" /\ ret = 0 /\ ~trapped) =>
        \A i \in Walked :
            LET m == NthMesh(call.a.mesh, meshlog[i].k)
            IN  /\ meshlog[i].type \in TypesFor(m)
                /\ SubmittedFor(meshlog[i])
                       = UsedOfAll(WalkAs(meshlog[i], meshlog[i].type).t.raster)
                /\ \A ty \in TypesFor(m) : DecodesStream(WalkAs(meshlog[i], ty), m, ty)

\* a mesh with texture coordinates and normals was walked in flat shading
\* without texture, and one was walked with both
C24_Witness ==
    /\ call.op = "drawMesh" /\ ret = 0 /\ Len(meshlog) = 1
    /\ call.a.mesh = MixedIndexMesh(TRUE, TRUE, TexA)
    /\ Len(WalkAs(meshlog[1], meshlog[1].type).visits) = 2
    /\ Cardinality(TypesFor(call.a.mesh)) = 4
    /\ meshlog[1].type \in {SHADER_FLAT, SHADER_GOURAUD \cup SHADER_TEXTURE}
    /\ raster # <<>>

\* ------------------------------------------------------------------------
\* The material of the meshes of a chain
\* ------------------------------------------------------------------------

Green == RGBf(0, FIX, 0)

Blue == RGBf(0, 0, FIX)

\* a mesh of one triangle with normals (hasN) and no texture, of the colour c,
\* the strengths a, d, sp and the exponent e
MaterialMesh(hasN, c, a, d, sp, e, next) ==
    [FrontMesh(<<0, 1, 2>>, hasN, FALSE, NULL, next) EXCEPT
        !.color = c, !.ambiant_strength = a, !.diffuse_strength = d,
        !.specular_strength = sp, !.specular_exponent = e]

GreenMesh(hasN, next) ==
    MaterialMesh(hasN, Green, FIX \div 2, FIX \div 4, FIX \div 2, 4, next)

BlueMesh(hasN, next) ==
    MaterialMesh(hasN, Blue, FIX \div 10, FIX, 0, 0, next)

\* chains of meshes of different materials, one with a mesh without vertices
\* in the middle
MaterialChains ==
    {GreenMesh(n, BlueMesh(n, NULL)) : n \in BOOLEAN}
    \cup {BlueMesh(TRUE, EmptyMesh(GreenMesh(TRUE, FullMesh(NULL))))}

DChain ==
    [DBase EXCEPT
        !.models = {Translate(0, 0, -2)},
        !.meshes = MeshArgs(MaterialChains, BOOLEAN, BOOLEAN)]

SpecChain == InitWith(DChain) /\ [][NextWith(DChain)]_vars

\* the renderer with the cached material values and the power table of the
\* material the claim names for the mesh m: the material of m, or the
\* renderer's own
WithMaterialOf(m, use_mesh_material) ==
    LET a  == IF use_mesh_material THEN m.ambiant_strength ELSE ambiantStrength
        d  == IF use_mesh_material THEN m.diffuse_strength ELSE diffuseStrength
        sp == IF use_mesh_material THEN m.specular_strength ELSE specularStrength
        c  == IF use_mesh_material THEN m.color ELSE color
        p  == PowTable(IF use_mesh_material THEN m.specular_exponent
                       ELSE specularExponent)
    IN  [This EXCEPT !.r_ambiantColor  = RGBScale(ambiantColor, a),
                     !.r_diffuseColor  = RGBScale(diffuseColor, d),
                     !.r_specularColor = RGBScale(specularColor, sp),
                     !.r_objectColor   = c,
                     !.currentpow = p.currentpow, !.powfact = p.powfact,
                     !.fastpowtab = p.fastpowtab]

\* the submissions of the walk of the mesh m in the mode ty with the renderer t
SubmissionsWith(t, m, ty) ==
    UsedOfAll(FaceLoop(Walker([t EXCEPT !.raster = <<>>, !.uni.tex = m.texture]), m, ty,
                       _clipTestNeeded(t, clipboundXY(t), m.bounding_box,
                                       MatMul(t.projM, t.r_modelViewM)), G0).t.raster)

\* C25: during drawMesh with use_mesh_material true every triangle of the mesh
\* k of the chain is shaded with the colour, the strengths and the exponent of
\* the mesh k, and with use_mesh_material false every triangle of every mesh is
\* shaded with the material and the exponent of the renderer.
C25_MaterialOfMesh ==
    (call.op = "drawMesh" /\ ret = 0 /\ ~trapped) =>
        \A i \in Walked :
            LET e == meshlog[i]
                m == NthMesh(call.a.mesh, e.k)
                t == WithMaterialOf(m, call.a.use_mesh_material)
            IN  /\ e.ambiant = t.r_ambiantColor
                /\ e.diffuse = t.r_diffuseColor
                /\ e.specular = t.r_specularColor
                /\ e.exponent = t.currentpow
                /\ SubmittedFor(e) = SubmissionsWith(t, m, e.type)

\* a chain of two meshes was drawn with the material of each, and their
\* triangles, the same but for the material, have different colours, both
\* different from those the material of the renderer gives
C25_Witness ==
    /\ call.op = "drawMesh" /\ ret = 0
    /\ call.a.use_mesh_material /\ call.a.draw_chained_meshes
    /\ call.a.mesh = GreenMesh(TRUE, BlueMesh(TRUE, NULL))
    /\ Len(meshlog) = 2 /\ Len(raster) = 2
    /\ raster[1].v[1].color # raster[2].v[1].color
    /\ \A i \in 1..2 :
           SubmittedFor(meshlog[i])
               # SubmissionsWith(WithMaterialOf(NthMesh(call.a.mesh, i), FALSE),
                                 NthMesh(call.a.mesh, i), meshlog[i].type)

\* ------------------------------------------------------------------------
\* The Phong colour
\* ------------------------------------------------------------------------

\* diffuse and specular terms given to _phong
PhongTerms == {-FIX, 0, FIX \div 4, FIX \div 2, FIX}

\* one channel of ambient + diffuse * max(d, 0) + specular * powSpecular(max(s, 0))
\* with the cached values of the renderer
PhongSum(ch, d, s) ==
    r_ambiantColor[ch] + fmul(r_diffuseColor[ch], max(d, 0))
        + fmul(r_specularColor[ch], _powSpecular(This, max(s, 0), 0))

\* C26 as stated: the sum is clamped to the colour range and then, when not
\* texturing, multiplied by the object colour.
C26_ClampThenMultiply ==
    \A d \in PhongTerms, s \in PhongTerms, TEXTURE \in BOOLEAN :
        _phong(This, TEXTURE, d, s, 0) =
            [ch \in 1..3 |->
                IF TEXTURE THEN clamp(PhongSum(ch, d, s), 0, FIX)
                ELSE fmul(clamp(PhongSum(ch, d, s), 0, FIX), r_objectColor[ch])]

\* C26: the Phong colour for the diffuse term d and the specular term s is the
\* sum ambient + diffuse * max(d, 0) + specular * powSpecular(max(s, 0)) of the
\* cached values, multiplied by the object colour when not texturing, and
\* clamped to the colour range last; when texturing the object colour is not
\* applied.
C26_MultiplyThenClamp ==
    \A d \in PhongTerms, s \in PhongTerms, TEXTURE \in BOOLEAN :
        _phong(This, TEXTURE, d, s, 0) =
            [ch \in 1..3 |->
                IF TEXTURE THEN clamp(PhongSum(ch, d, s), 0, FIX)
                ELSE clamp(fmul(PhongSum(ch, d, s), r_objectColor[ch]), 0, FIX)]

\* a face was submitted, not textured, with a colour whose sum is above the
\* colour range in a channel where the object colour is below 1 and the colour
\* submitted is 1
C26_Witness ==
    /\ AfterDraw /\ raster # <<>>
    /\ "GOURAUD" \notin raster[1].type /\ "TEXTURE" \notin raster[1].type
    /\ \E ch \in 1..3 :
          /\ r_ambiantColor[ch] > FIX
          /\ r_objectColor[ch] \in 1..(FIX - 1)
          /\ fmul(r_ambiantColor[ch], r_objectColor[ch]) > FIX
          /\ raster[1].uni.facecolor[ch] = FIX

\* ------------------------------------------------------------------------
\* The specular power table
\* ------------------------------------------------------------------------

\* a model matrix that stretches the scene three times along X
Widening == << <<3, 0, 0, 0>>, <<0, 1, 0, 0>>, <<0, 0, 1, 0>>, <<0, 0, 0, 1>> >>

\* exponents 0, below 8 and above 8; a light from the right; calls with and
\* without a texture image
DPow ==
    [DBase EXCEPT
        !.models    = {Identity, Widening},
        !.lightdirs = {<<-1, -1, -1>>, <<-1, 0, 0>>},
        !.exponents = {0, 3, 16},
        !.textures  = {NULL, TexA},
        !.meshes    = MeshArgs({FrontMesh(<<0, 1, 2>>, TRUE, TRUE, TexA, NULL)},
                               BOOLEAN, {TRUE})]

SpecPow == InitWith(DPow) /\ [][NextWith(DPow)]_vars

\* exponents a table is built for
PowExponents == {0, 1, 2, 3, 7, 8, 9, 16, 50, 100}

\* the renderer without a specular colour
NoSpecular(t) == [t EXCEPT !.r_specularColor = RGBf(0, 0, 0)]

\* C27: the table built for the exponent 0 holds 16 zeros, _powSpecular
\* returns 0 for every input in [0, 1] and the Phong colours are those of a
\* material without specular colour; for an exponent above 0,
\* _powSpecular(1.0) is the entry 0 of the table.
C27_ZeroExponent ==
    \A e \in PowExponents :
        LET t == _precomputeSpecularTable(This, e)
        IN  IF e = 0
            THEN /\ t.fastpowtab = [k \in 1..POWTABSIZE |-> 0]
                 /\ \A x \in 0..FIX, gf \in {0, FIX} : _powSpecular(t, x, gf) = 0
                 /\ \A d \in PhongTerms, s \in PhongTerms, TEXTURE \in BOOLEAN :
                        _phong(t, TEXTURE, d, s, FIX)
                            = _phong(NoSpecular(t), TEXTURE, d, s, FIX)
            ELSE \A gf \in {0, FIX} : _powSpecular(t, FIX, gf) = t.fastpowtab[1]

\* a face was submitted with the exponent 0 in effect, a table of zeros and a
\* specular colour that is not black
C27_Witness ==
    /\ AfterDraw /\ raster # <<>>
    /\ specularExponent = 0 /\ currentpow = 0
    /\ fastpowtab = [k \in 1..POWTABSIZE |-> 0]
    /\ \E ch \in 1..3 : r_specularColor[ch] > 0
    /\ call.op # "drawMesh"

\* the table of the renderer is the one built for the exponent e
BuiltFor(e) ==
    /\ currentpow = e
    /\ powfact = PowTable(e).powfact
    /\ fastpowtab = PowTable(e).fastpowtab

\* C28: after every draw call that went through, the power table is the one
\* built for the exponent of the material; every mesh drawn by drawMesh was
\* shaded with the table built for the exponent of the mesh when the material
\* of the mesh is used and for the exponent of the material otherwise; the
\* table is always the one built for the exponent recorded with it; and
\* _precomputeSpecularTable asked for that exponent changes nothing.
C28_TableForExponent ==
    /\ BuiltFor(currentpow)
    /\ _precomputeSpecularTable(This, currentpow) = This
    /\ (AfterDraw /\ ret = 0 /\ call.op # "drawMesh") => BuiltFor(specularExponent)
    /\ (AfterDraw /\ ret = 0 /\ call.op = "drawMesh") =>
          \A i \in 1..Len(meshlog) :
              meshlog[i].exponent =
                  IF call.a.use_mesh_material
                  THEN NthMesh(call.a.mesh, meshlog[i].k).specular_exponent
                  ELSE specularExponent

\* a mesh was shaded with the table of its own exponent while the exponent of
\* the material is another one
C28_Witness ==
    /\ AfterDraw /\ ret = 0 /\ call.op = "drawMesh" /\ call.a.use_mesh_material
    /\ raster # <<>> /\ Len(meshlog) = 1
    /\ meshlog[1].exponent = call.a.mesh.specular_exponent
    /\ specularExponent # call.a.mesh.specular_exponent
    /\ BuiltFor(call.a.mesh.specular_exponent)

\* the index indi computed by _powSpecular(x) with the table of the renderer
SpecularIndex(x) == fdiv(fmul(FIX - x, powfact), FIX)

\* the value max(N.H, 0) given to _powSpecular for the normal N of a vertex
\* shaded with faces culled
SpecularTerm(N) == max(fdot(mult0(r_modelViewM, N), r_H_inorm), 0)

\* a triangle with normals was shaded per vertex, with faces culled
GouraudTriangleDrawn ==
    /\ call.op \in {"drawTriangleN", "drawTriangleNT"} /\ ret = 0
    /\ culling_dir # 0
    /\ raster # <<>> /\ "GOURAUD" \in raster[1].type

\* the table is read for the term x at indices of 0..15 only
ReadsInTable(x) ==
    SpecularIndex(x) < POWTABSIZE - 1 =>
        (0 <= SpecularIndex(x) /\ SpecularIndex(x) + 1 <= POWTABSIZE - 1)

\* C29: whenever _powSpecular reads the table for a vertex of a triangle
\* shaded per vertex, the index it computed satisfies 0 <= indi and
\* indi + 1 <= 15.
C29_IndexInTable ==
    GouraudTriangleDrawn => \A k \in 1..3 : ReadsInTable(SpecularTerm(call.N[k]))

\* the same under the model matrix that keeps the lengths
C29_IndexInTableUnscaled ==
    (GouraudTriangleDrawn /\ modelM = Identity) =>
        \A k \in 1..3 : ReadsInTable(SpecularTerm(call.N[k]))

\* ------------------------------------------------------------------------
\* The draw calls that fail
\* ------------------------------------------------------------------------

\* every status a draw call returns, with two exponents
DFail ==
    [DBase EXCEPT
        !.images    = {"null", "full"},
        !.zbufs     = {<<NULL, "full">>, <<ZB, "full">>},
        !.exponents = {16, 3},
        !.textures  = {NULL, TexA},
        !.batches   = BatchesOf(BatchVertices, {<<0, 1, 2>>}, 3,
                                {{}, {"vertices"}}, {TexA}),
        !.qbatches  = BatchesOf(QuadVertices, {<<0, 1, 2, 3>>}, 4,
                                {{}, {"ind_vertices"}}, {TexA})]

SpecFail == InitWith(DFail) /\ [][NextWith(DFail)]_vars

\* the members of the renderer
RendererVars ==
    <<tmplVars, generalVars, uni, sceneVars, modelVars, geomCache, matCache, powVars>>

\* the step is a draw call that returns a negative status
NegativeReturn == call'.op # "none" /\ ~trapped' /\ ret' < 0

\* the calls that take a texture image with one primitive
TexturedPrimitive == {"drawTriangleT", "drawTriangleNT", "drawQuadT", "drawQuadNT"}

\* C30: a draw call that returns -1, -2 or -3 leaves every member of the
\* renderer as it was: the power table and its exponent, the texture pointer,
\* the face colour and the cached material values with the rest.
C30_FailureLeavesState ==
    [][NegativeReturn => UNCHANGED RendererVars]_vars

\* the same for everything but the power table
C30_FailureLeavesAllButTable ==
    [][NegativeReturn =>
          UNCHANGED <<tmplVars, generalVars, uni, sceneVars, modelVars, geomCache,
                      matCache>>]_vars

\* the same for the whole renderer and every failure but the -3 of a triangle
\* or quad given without its texture image
C30_OtherFailuresLeaveState ==
    [][(NegativeReturn /\ ~(ret' = -3 /\ call'.op \in TexturedPrimitive)) =>
          UNCHANGED RendererVars]_vars

\* a triangle given without its texture image returned -3 and the table is now
\* the one of the exponent of the material
C30_TableRebuilt ==
    /\ AfterDraw /\ ret = -3 /\ call.op \in TexturedPrimitive
    /\ currentpow = 3 /\ specularExponent = 3

====
